---- MODULE Spec2Model ----
(***************************************************************************)
(* Verification model of the frida address sanitizer runtime               *)
(* (libafl_frida/src/asan/asan_rt.rs): the shadow check blobs, the x86-64  *)
(* instrumentation sequence with its report blob, the fault handler and    *)
(* the pre_exec / post_exec lifecycle.                                     *)
(*                                                                         *)
(* Three specifications share the variables:                               *)
(*   SpecBlob  the check blobs as functions of (address, shadow window)    *)
(*   SpecEmit  one instrumented x86-64 instruction, executed phase by phase*)
(*   Spec      the runtime lifecycle and the fault handler                 *)
(***************************************************************************)
EXTENDS Integers, Sequences, FiniteSets, TLC

VARIABLES
    arch,            \* cfg(target_arch) of the build: "x86_64" or "aarch64"
    shadow_bit,      \* allocator.shadow_bit()
    window,          \* the 16-bit word the blob loads from the shadow map
    blob_kind,       \* which blob ran last: "none", "pow2", "exact"
    blob_u,          \* the address the blob was entered with (rdi / x0)
    blob_width,      \* the access width the blob was generated for
    blob_addr,       \* the shadow address the blob loaded from
    blob_pass,       \* TRUE: the blob reached done, FALSE: it branched to report
    epc,             \* position of the guest thread in the instrumentation sequence
    cpu,             \* the thread's registers (r), flags (f) and stack memory (st)
    opnd,            \* the operand emit_shadow_check was called with
    seed,            \* selects the guest's register values before the sequence
    regs,            \* self.regs, the runtime's register save area
    continue_on_error, \* options.continue_on_error
    check_for_leaks_enabled, \* options.detect_leaks
    hooks_enabled,   \* self.hooks_enabled
    phase,           \* "new", "ready" (initialised), "executing" (after pre_exec)
    pc,              \* position of the runtime: "idle", in post_exec, in handle_trap, "aborted"
    post_pos,        \* index of the next statement of the running post_exec
    post_trace,      \* the statements the last post_exec has executed, with what they saw
    allocations,     \* the allocator's chunks: records [ptr, size, freed]
    input_poisoned,  \* the shadow state of the input's bytes
    errors,          \* ASAN_ERRORS, the process-wide error collector
    fault,           \* the trap being handled: its inputs and what the handler did
    execs,           \* number of pre_exec calls so far
    stalked_addresses, \* self.stalked_addresses: stalked address -> real address
    last_call,       \* the lifecycle call made last: "new", "init", "pre_exec", ...
    shadow,          \* the shadow map: the set of user bytes whose validity bit is set
    shadow_ops,      \* the poison / unpoison calls made on the shadow map, in order
    unit_fn,         \* the function of the runtime called on its own, "none" if none is
    unit_in,         \* its argument
    unit_out,        \* what the call has produced: <<>> until it produces anything
    threads,         \* what each thread is doing inside the runtime, "idle" if nothing
    collector_lock,  \* the threads holding the lock of the error collector
    qemu,            \* the QEMU executor: whether it is built, its first_exec flag
    qemu_trace,      \* the helper and inner calls made by the QEMU executor, in order
    forkexec         \* the in-process fork executor: the state's executions, the processes

blobvars == <<arch, shadow_bit, window, blob_kind, blob_u, blob_width, blob_addr, blob_pass>>

emitvars == <<epc, cpu, opnd, seed>>

threadvars == <<threads, collector_lock>>

qemuvars == <<qemu, qemu_trace, forkexec>>

unitvars == <<shadow, shadow_ops, unit_fn, unit_in, unit_out, threadvars, qemuvars>>

lifevars == <<check_for_leaks_enabled, hooks_enabled, phase, pc, post_pos, post_trace,
              allocations, input_poisoned, errors, fault, execs, stalked_addresses,
              last_call>>

rtvars == <<lifevars, unitvars>>

vars == <<blobvars, emitvars, regs, continue_on_error, rtvars>>

(***************************************************************************)
(* Bounds of the model.                                                    *)
(***************************************************************************)
MaxAddr == 31        \* checked addresses are 0..MaxAddr
MaxShadowBit == 2    \* shadow_bit ranges over 1..MaxShadowBit
MaxHoles == 2        \* windows have at most MaxHoles poisoned (or valid) bytes

(***************************************************************************)
(* Bit operations on naturals, as the instructions of the blobs use them.  *)
(***************************************************************************)
Pow2(n) == 2 ^ n

RECURSIVE BitAnd(_, _)
BitAnd(a, b) ==
    IF a = 0 \/ b = 0 THEN 0
    ELSE ((a % 2) * (b % 2)) + (2 * BitAnd(a \div 2, b \div 2))

\* and with a sign-extended immediate: a & m for a >= 0 and any integer m
\* (two's complement: a & m = a - (a & ~m), ~m = -m - 1)
AndImm(a, m) == IF m >= 0 THEN BitAnd(a, m) ELSE a - BitAnd(a, (-m) - 1)

BitOr(a, b) == a + b - BitAnd(a, b)

Shr(a, n) == a \div Pow2(n)

Shl(a, n) == a * Pow2(n)

\* not of a two's complement integer
BitNot(a) == (-a) - 1

\* rol ax, 8: the low 16 bits are rotated, the upper bits of eax are kept
RolAx8(eax) ==
    LET ax == eax % 65536
    IN  (eax - ax) + ((ax % 256) * 256) + (ax \div 256)

RECURSIVE PopCount(_)
PopCount(a) == IF a = 0 THEN 0 ELSE (a % 2) + PopCount(a \div 2)

RECURSIVE Reverse(_, _)
\* the low n bits of a in reverse order
Reverse(a, n) == IF n = 0 THEN 0 ELSE ((a % 2) * Pow2(n - 1)) + Reverse(a \div 2, n - 1)

Archs == {"x86_64", "aarch64"}

PowWidths == {1, 2, 4, 8, 16}

ExactWidths == {3, 6, 12, 24, 32, 48, 64}

\* the shadow windows of the model: all valid or all poisoned, with at most
\* MaxHoles bits flipped
Windows == {w \in 0..65535 : PopCount(65535 - w) <= MaxHoles \/ PopCount(w) <= MaxHoles}

(***************************************************************************)
(* The reference routine of the source comment (asan_rt.rs 1481-1506).     *)
(***************************************************************************)
\* val after the five swaps of the reference routine
RefRearrange(val) ==
    LET v1 == BitOr(Shr(BitAnd(val, 65280), 8), Shl(BitAnd(val, 255), 8))
        v2 == BitOr(Shr(BitAnd(v1, 61680), 4), Shl(BitAnd(v1, 3855), 4))
        v3 == BitOr(Shr(BitAnd(v2, 52428), 2), Shl(BitAnd(v2, 13107), 2))
        v4 == BitOr(Shr(BitAnd(v3, 43690), 1), Shl(BitAnd(v3, 21845), 1))
    IN  BitOr(Shr(v4, 8), Shl(v4, 8)) % 65536

\* the validity bit of user byte u + i in the window loaded for u: bit
\* (u & 7) + i of the rearranged window; bytes past the window have none
ValidityBit(w, u, i) == Shr(RefRearrange(w), (u % 8) + i) % 2

(***************************************************************************)
(* generate_instrumentation_blobs: the argument each width's blob is       *)
(* generated with.                                                         *)
(***************************************************************************)
x86_bit_arg(width) ==
    CASE width = 1 -> 1
      [] width = 2 -> 2
      [] width = 4 -> 3
      [] width = 8 -> 4
      [] width = 16 -> 5

a64_bit_arg(width) ==
    CASE width = 1 -> 0
      [] width = 2 -> 1
      [] width = 4 -> 2
      [] width = 8 -> 3
      [] width = 16 -> 4

\* generate_shadow_check_exact_blob(3), (6), ... : the argument is the width
a64_exact_arg(width) == width

(***************************************************************************)
(* generate_shadow_check_blob, x86-64.  Each LET line is one instruction   *)
(* group of the dynasm block; rdi holds the checked address.               *)
(***************************************************************************)
\* as x86_shadow_addr, with the mask one bit too narrow (mov rax, -1)
x86_shadow_addr_narrow_mask(k, rdi) ==
    BitAnd(BitNot((-1) * Pow2(k)), Shr(rdi, 3)) + Shl(1, k)

\* mov cl, shadow_bit; mov rax, -2; shl rax, cl; mov rdx, rdi; shr rdx, 3;
\* not rax; and rax, rdx; mov edx, 1; shl rdx, cl;  [rax + rdx]
x86_shadow_addr(k, rdi) ==
    LET rax1 == (-2) * Pow2(k)
        rdx1 == Shr(rdi, 3)
        rax2 == BitNot(rax1)
        rax3 == BitAnd(rax2, rdx1)
        rdx2 == Shl(1, k)
    IN  rax3 + rdx2

\* the swaps without the last rol ax, 8
x86_rearrange_without_last_rol(val) ==
    LET e1 == RolAx8(val)
        c1 == BitAnd(Shr(e1, 4), 3855)
        e2 == BitOr(AndImm(Shl(e1, 4), -3856), c1)
        c2 == BitAnd(Shr(e2, 2), 13107)
        e3 == c2 + (4 * AndImm(e2, -3277))
        c3 == BitAnd(Shr(e3, 1), 21845)
        e4 == c3 + (2 * AndImm(e3, -10923))
    IN  e4 % 65536

\* rol ax, 8 ... rol ax, 8; movzx edx, ax
x86_rearrange(val) ==
    LET e1 == RolAx8(val)
        c1 == BitAnd(Shr(e1, 4), 3855)
        e2 == BitOr(AndImm(Shl(e1, 4), -3856), c1)
        c2 == BitAnd(Shr(e2, 2), 13107)
        e3 == c2 + (4 * AndImm(e2, -3277))
        c3 == BitAnd(Shr(e3, 1), 21845)
        e4 == c3 + (2 * AndImm(e3, -10923))
        e5 == RolAx8(e4)
    IN  e5 % 65536

\* and dil, 7; mov ecx, edi; shr edx, cl; mov cl, bit; mov eax, -1;
\* shl eax, cl; not eax; movzx ecx, al; and edx, ecx; xor eax, eax;
\* cmp edx, ecx; je >done
x86_check(w, rdi, bit) ==
    LET edx1 == x86_rearrange(w)
        cl   == rdi % 8
        edx2 == Shr(edx1, cl)
        eax  == BitNot((-1) * Pow2(bit))
        ecx  == eax % 256
        edx3 == BitAnd(edx2, ecx)
    IN  edx3 = ecx

(***************************************************************************)
(* generate_shadow_check_blob and generate_shadow_check_exact_blob,        *)
(* AArch64.  x0 holds the checked address.                                 *)
(***************************************************************************)
\* mov x1, #0; add x1, x1, x0, lsr #3; ubfx x1, x1, #0, #(shadow_bit + 1);
\* mov x2, #1; add x1, x1, x2, lsl #shadow_bit
a64_shadow_addr(k, x0) ==
    LET x1a == 0 + Shr(x0, 3)
        x1b == x1a % Pow2(k + 1)
    IN  x1b + Shl(1, k)

\* rev16 w1, w1; rbit w1, w1; lsr x1, x1, #16
\* (rbit reverses 32 bits and the shift keeps the upper 16: the low 16 bits
\* of the byte-swapped word in reverse order)
a64_rearrange(val) ==
    LET r16 == ((val % 256) * 256) + ((val \div 256) % 256)
    IN  Reverse(r16, 16)

\* and x0, x0, #7; ...; lsr x1, x1, x0; tbnz x1, #bit, >done
a64_check(w, x0, bit) ==
    LET x1 == Shr(a64_rearrange(w), x0 % 8)
    IN  Shr(x1, bit) % 2 = 1

\* ...; lsr x1, x1, x0; mov x2, val; ands x1, x1, x2; b.ne >done
a64_check_exact(w, x0, val) ==
    LET x1 == Shr(a64_rearrange(w), x0 % 8)
    IN  BitAnd(x1, val) # 0

\* the shadow address the blob of the build loads its window from
blob_shadow_addr(a, k, u) ==
    IF a = "x86_64" THEN x86_shadow_addr(k, u) ELSE a64_shadow_addr(k, u)

\* the blob embedded for a power-of-two width reaches done
blob_check(a, w, u, width) ==
    IF a = "x86_64" THEN x86_check(w, u, x86_bit_arg(width))
    ELSE a64_check(w, u, a64_bit_arg(width))

InitBlobVars ==
    /\ blob_kind = "none"
    /\ blob_u = 0
    /\ blob_width = 0
    /\ blob_addr = 0
    /\ blob_pass = FALSE

(***************************************************************************)
(* The x86-64 machine the instrumentation sequence runs on.                *)
(***************************************************************************)
\* ASAN_SAVE_REGISTER_NAMES[0..15], in the order of self.regs
ASAN_SAVE_REGISTER_NAMES ==
    <<"rax", "rbx", "rcx", "rdx", "rbp", "rsp", "rsi", "rdi",
      "r8", "r9", "r10", "r11", "r12", "r13", "r14", "r15">>

ASAN_SAVE_REGISTER_COUNT == 19

X86Regs == {ASAN_SAVE_REGISTER_NAMES[i] : i \in 1..16}

\* frida_gum_sys::GUM_RED_ZONE_SIZE on x86-64
GUM_RED_ZONE_SIZE == 128

\* the address of the done label of the embedded check blob
DoneAddr == 900000

\* addresses the report blob loads into registers before the call
SelfAddr == 800000

SelfRegsAddr == 800008

TrapFuncAddr == 800016

\* what a register or the flags hold after code that does not preserve them
Clobbered == -1

\* registers the system ABI lets the callee overwrite
CallerSaved == {"rax", "rcx", "rdx", "rsi", "rdi", "r8", "r9", "r10", "r11"}

\* the operand's base and index: a saved register, rip, or none
OperandRegs == X86Regs \cup {"rip", "none"}

\* operand widths emit_shadow_check is called with: those with a blob, and one without
EmitWidths == PowWidths \cup {32}

MaxDisp == 1         \* displacements are -MaxDisp..MaxDisp times 8

MaxSeed == 0         \* guest register files 0..MaxSeed

\* the guest's registers, flags and stack immediately before the sequence;
\* every register holds a value of its own
GuestCpu(s) ==
    [r |-> [x \in X86Regs |->
              LET i == CHOOSE j \in 1..16 : ASAN_SAVE_REGISTER_NAMES[j] = x
              IN  IF x = "rsp" THEN 65536 + (16 * s) ELSE (1024 * i) + (8 * s)],
     f |-> 70 + s,
     st |-> [a \in {} |-> 0]]

\* the original guest pc, passed to emit_shadow_check as `address`
TrueRip(s) == 500000 + (16 * s)

Store(st, a, v) == [x \in (DOMAIN st) \cup {a} |-> IF x = a THEN v ELSE st[x]]

\* gum x86 writer instructions used by emit_shadow_check
put_lea_reg_reg_offset(m, dst, src, off) == [m EXCEPT !.r[dst] = m.r[src] + off]

put_push_val(m, v) ==
    [m EXCEPT !.r["rsp"] = @ - 8, !.st = Store(@, m.r["rsp"] - 8, v)]

put_push_reg(m, reg) == put_push_val(m, m.r[reg])

put_pushfx(m) == put_push_val(m, m.f)

put_pop_reg(m, reg) ==
    [m EXCEPT !.r = [x \in X86Regs |->
                        IF x = reg THEN m.st[m.r["rsp"]]
                        ELSE IF x = "rsp" THEN m.r["rsp"] + 8
                        ELSE m.r[x]]]

put_popfx(m) == [m EXCEPT !.f = m.st[m.r["rsp"]], !.r["rsp"] = @ + 8]

put_mov_reg_reg(m, dst, src) == [m EXCEPT !.r[dst] = m.r[src]]

put_mov_reg_address(m, dst, a) == [m EXCEPT !.r[dst] = a]

put_mov_reg_reg_offset_ptr(m, dst, src, off) == [m EXCEPT !.r[dst] = m.st[m.r[src] + off]]

put_xor_reg_reg(m, dst) == [m EXCEPT !.r[dst] = 0, !.f = Clobbered]

put_shl_reg_u8(m, dst, n) == [m EXCEPT !.r[dst] = Shl(@, n), !.f = Clobbered]

put_add_reg_reg(m, dst, src) == [m EXCEPT !.r[dst] = @ + m.r[src], !.f = Clobbered]

(***************************************************************************)
(* emit_shadow_check, x86-64.                                              *)
(***************************************************************************)
\* let scale = match scale { 2 => 1, 4 => 2, 8 => 3, _ => 0 }
emit_scale(scale) ==
    CASE scale = 2 -> 1
      [] scale = 4 -> 2
      [] scale = 8 -> 3
      [] OTHER -> 0

\* the spill: lea rsp, [rsp - redzone]; pushfq; push rdi, rsi, rdx, rcx, rax, rbp
emit_spill(m) ==
    LET m1 == put_lea_reg_reg_offset(m, "rsp", "rsp", -GUM_RED_ZONE_SIZE)
        m2 == put_pushfx(m1)
        m3 == put_push_reg(m2, "rdi")
        m4 == put_push_reg(m3, "rsi")
        m5 == put_push_reg(m4, "rdx")
        m6 == put_push_reg(m5, "rcx")
        m7 == put_push_reg(m6, "rax")
    IN  put_push_reg(m7, "rbp")

\* Init Rdi
emit_init_rdi(m, o, true_rip) ==
    CASE o.base = "none" -> put_xor_reg_reg(m, "rdi")
      [] o.base = "rip" -> put_mov_reg_address(m, "rdi", true_rip)
      [] o.base = "rsp" ->
            put_lea_reg_reg_offset(m, "rdi", "rsp", GUM_RED_ZONE_SIZE + (8 * 7))
      [] OTHER -> put_mov_reg_reg(m, "rdi", o.base)

\* as emit_init_rsi, without the reload of the guest's rdi from the spill
emit_init_rsi_no_reload(m, o, true_rip) ==
    CASE o.index = "none" -> put_xor_reg_reg(m, "rsi")
      [] o.index = "rip" -> put_mov_reg_address(m, "rsi", true_rip)
      [] o.index = "rsp" ->
            put_lea_reg_reg_offset(m, "rsi", "rsp", GUM_RED_ZONE_SIZE + (8 * 7))
      [] OTHER -> put_mov_reg_reg(m, "rsi", o.index)

\* the index goes to rsi
emit_init_rsi(m, o, true_rip) ==
    CASE o.index = "none" -> put_xor_reg_reg(m, "rsi")
      [] o.index = "rip" -> put_mov_reg_address(m, "rsi", true_rip)
      [] o.index = "rdi" -> put_mov_reg_reg_offset_ptr(m, "rsi", "rsp", 40)
      [] o.index = "rsp" ->
            put_lea_reg_reg_offset(m, "rsi", "rsp", GUM_RED_ZONE_SIZE + (8 * 7))
      [] OTHER -> put_mov_reg_reg(m, "rsi", o.index)

\* address materialization, then true_rip and the address are pushed
emit_materialize(m, o, true_rip) ==
    LET m1 == emit_init_rdi(m, o, true_rip)
        m2 == emit_init_rsi(m1, o, true_rip)
        m3 == IF emit_scale(o.scale) > 0
              THEN put_shl_reg_u8(m2, "rsi", emit_scale(o.scale)) ELSE m2
        m4 == put_add_reg_reg(m3, "rdi", "rsi")
        m5 == put_lea_reg_reg_offset(m4, "rdi", "rdi", o.disp)
        m6 == put_mov_reg_address(m5, "rsi", true_rip)
        m7 == put_push_reg(m6, "rsi")
    IN  put_push_reg(m7, "rdi")

\* let checked = match width { 1 | 2 | 4 | 8 | 16 => put_bytes(blob), _ => false }
emit_checked(width) == width \in PowWidths

\* the registers and flags after the embedded check blob ran to its je;
\* on the failing path lea rsi, [>done] has run as well
x86_blob_effect(m, bit, pass) ==
    LET rdi == m.r["rdi"]
        mask == BitNot((-1) * Pow2(bit)) % 256
    IN  [m EXCEPT !.r = [x \in X86Regs |->
                            CASE x = "rax" -> 0
                              [] x = "rcx" -> mask
                              [] x = "rdx" -> IF pass THEN mask ELSE Clobbered
                              [] x = "rdi" -> (rdi - (rdi % 256)) + (rdi % 8)
                              [] x = "rsi" -> IF pass THEN m.r[x] ELSE DoneAddr
                              [] OTHER -> m.r[x]],
                  !.f = Clobbered]

\* as emit_restore, with rax and rcx popped in the order they were pushed
emit_restore_misordered(m) ==
    LET m1 == put_pop_reg(m, "rdi")
        m2 == put_pop_reg(m1, "rsi")
        m3 == put_pop_reg(m2, "rbp")
        m4 == put_pop_reg(m3, "rcx")
        m5 == put_pop_reg(m4, "rax")
        m6 == put_pop_reg(m5, "rdx")
        m7 == put_pop_reg(m6, "rsi")
        m8 == put_pop_reg(m7, "rdi")
        m9 == put_popfx(m8)
    IN  put_lea_reg_reg_offset(m9, "rsp", "rsp", GUM_RED_ZONE_SIZE)

\* the restore: pop rdi, rsi (address, true_rip); pop rbp, rax, rcx, rdx, rsi,
\* rdi; popfq; lea rsp, [rsp + redzone]
emit_restore(m) ==
    LET m1 == put_pop_reg(m, "rdi")
        m2 == put_pop_reg(m1, "rsi")
        m3 == put_pop_reg(m2, "rbp")
        m4 == put_pop_reg(m3, "rax")
        m5 == put_pop_reg(m4, "rcx")
        m6 == put_pop_reg(m5, "rdx")
        m7 == put_pop_reg(m6, "rsi")
        m8 == put_pop_reg(m7, "rdi")
        m9 == put_popfx(m8)
    IN  put_lea_reg_reg_offset(m9, "rsp", "rsp", GUM_RED_ZONE_SIZE)

(***************************************************************************)
(* The report blob, x86-64 (generate_instrumentation_blobs).               *)
(***************************************************************************)
\* the stores into self.regs: [rdi + 8 * i] for the live registers, then the
\* spilled registers read back from [rsp + off]
report_save(m) ==
    LET ld(off) == m.st[m.r["rsp"] + off]
    IN  [i \in 0..(ASAN_SAVE_REGISTER_COUNT - 1) |->
            CASE i = 16 -> m.r["rsi"]
              [] i = 1 -> m.r["rbx"]
              [] i = 4 -> m.r["rbp"]
              [] i = 5 -> m.r["rsp"]
              [] i \in 8..15 -> m.r[ASAN_SAVE_REGISTER_NAMES[i + 1]]
              [] i = 0 -> ld(16)
              [] i = 2 -> ld(24)
              [] i = 3 -> ld(32)
              [] i = 6 -> ld(40)
              [] i = 17 -> ld(0)
              [] i = 18 -> ld(8)
              [] i = 7 -> ld(48)]

\* the registers when the report blob reaches call rsi
report_before_call(m) ==
    LET ld(off) == m.st[m.r["rsp"] + off]
    IN  [m EXCEPT !.r = [x \in X86Regs |->
                            CASE x = "rax" -> ld(16)
                              [] x = "rcx" -> SelfAddr
                              [] x = "rdx" -> ld(32)
                              [] x = "rsi" -> TrapFuncAddr
                              [] x = "rdi" -> SelfAddr
                              [] x = "rsp" -> AndImm(m.r["rsp"] - 8, -16)
                              [] OTHER -> m.r[x]],
                  !.f = Clobbered]

\* handle_trap returned to the report blob: the callee kept what the ABI
\* makes it keep
after_call(m) ==
    [m EXCEPT !.r = [x \in X86Regs |-> IF x \in CallerSaved THEN Clobbered ELSE m.r[x]],
              !.f = Clobbered]

\* mov rdi, [>self_regs_addr]; mov rbx, [rdi + 0x8] ... mov rsi, [rdi + 0x80]; jmp rsi
report_restore(m, rg) ==
    [m EXCEPT !.r = [x \in X86Regs |->
                        CASE x = "rdi" -> SelfRegsAddr
                          [] x = "rbx" -> rg[1]
                          [] x = "rbp" -> rg[4]
                          [] x = "rsp" -> rg[5]
                          [] x = "rsi" -> rg[16]
                          [] x \in {"r8", "r9", "r10", "r11", "r12", "r13", "r14", "r15"} ->
                                rg[(CHOOSE j \in 1..16 : ASAN_SAVE_REGISTER_NAMES[j] = x) - 1]
                          [] OTHER -> m.r[x]]]

(***************************************************************************)
(* The allocator and the error collector.  alloc.rs and asan/errors.rs are *)
(* not part of the sources at hand: these definitions follow the           *)
(* specification's contract of the allocator and of the collector.         *)
(***************************************************************************)
MaxErrors == 1       \* failed checks are taken while fewer errors are collected

MaxExecs == 2        \* pre_exec is called at most MaxExecs times

HalfWordBits == 6    \* the model's words: the low half has HalfWordBits bits

\* value & 0xffffffff: the low half of a word
LowHalf(v) == v % Pow2(HalfWordBits)

\* the chunks the allocator hands out, in this order
HeapChunks == {[ptr |-> 72, size |-> 8], [ptr |-> 104, size |-> 8]}

Live(allocs) == {c \in allocs : ~c.freed}

\* alloc: a chunk not yet handed out, live
Alloc(allocs, h) == allocs \cup {[ptr |-> h.ptr, size |-> h.size, freed |-> FALSE]}

\* free: the chunk is marked freed and stays known (quarantine)
Free(allocs, c) == (allocs \ {c}) \cup {[c EXCEPT !.freed = TRUE]}

\* reset: no chunk is live afterwards
Reset(allocs) == {}

\* distance from address a to the chunk's range
Distance(c, a) ==
    IF a < c.ptr THEN c.ptr - a
    ELSE IF a >= c.ptr + c.size THEN (a - (c.ptr + c.size)) + 1
    ELSE 0

\* find_metadata(fault_addr, base_reg_value): the chunk that starts at the
\* base value if any, else the closest chunk; none when there is no chunk
find_metadata(allocs, a, hint) ==
    IF allocs = {} THEN {}
    ELSE IF \E c \in allocs : c.ptr = hint THEN {c \in allocs : c.ptr = hint}
    ELSE {CHOOSE c \in allocs :
            \A d \in allocs :
                \/ Distance(c, a) < Distance(d, a)
                \/ (Distance(c, a) = Distance(d, a) /\ c.ptr <= d.ptr)}

\* AsanErrors::report_error: the error is appended; the process is aborted
\* afterwards unless continue_on_error is set
report_error(errs, e) == Append(errs, e)

RECURSIVE SetToSeq(_)
SetToSeq(S) ==
    IF S = {} THEN <<>>
    ELSE LET c == CHOOSE x \in S : \A y \in S : x.ptr <= y.ptr
         IN  <<c>> \o SetToSeq(S \ {c})

\* check_for_leaks: every chunk live at this point is reported as a Leak;
\* the first report ends the process unless continue_on_error is set
check_for_leaks(errs, allocs, cont) ==
    LET leaks == [i \in 1..Cardinality(Live(allocs)) |->
                    [kind |-> "Leak", chunk |-> {SetToSeq(Live(allocs))[i]}]]
    IN  IF cont \/ leaks = <<>> THEN errs \o leaks ELSE Append(errs, leaks[1])

(***************************************************************************)
(* handle_trap.                                                            *)
(***************************************************************************)
ASAN_SAVE_REGISTER_COUNT_AARCH64 == 32

RegsCount(a) ==
    IF a = "x86_64" THEN ASAN_SAVE_REGISTER_COUNT ELSE ASAN_SAVE_REGISTER_COUNT_AARCH64

\* Self::current_stack(): (stack_start, stack_end) of the faulting thread
current_stack == <<16, 32>>

\* register_idx: (index into self.regs, size) of an X86Register, or nothing
register_idx(reg) ==
    CASE reg = "eax" -> <<0, 32>>
      [] reg = "ecx" -> <<2, 32>>
      [] reg = "edx" -> <<3, 32>>
      [] reg = "ebx" -> <<1, 32>>
      [] reg = "esp" -> <<5, 32>>
      [] reg = "ebp" -> <<4, 32>>
      [] reg = "esi" -> <<6, 32>>
      [] reg = "edi" -> <<7, 32>>
      [] reg = "r8d" -> <<8, 32>>
      [] reg = "r9d" -> <<9, 32>>
      [] reg = "r10d" -> <<10, 32>>
      [] reg = "r11d" -> <<11, 32>>
      [] reg = "r12d" -> <<12, 32>>
      [] reg = "r13d" -> <<13, 32>>
      [] reg = "r14d" -> <<14, 32>>
      [] reg = "r15d" -> <<15, 32>>
      [] reg = "eip" -> <<18, 32>>
      [] reg = "rax" -> <<0, 4>>
      [] reg = "rcx" -> <<2, 4>>
      [] reg = "rdx" -> <<3, 4>>
      [] reg = "rbx" -> <<1, 4>>
      [] reg = "rsp" -> <<5, 4>>
      [] reg = "rbp" -> <<4, 4>>
      [] reg = "rsi" -> <<6, 4>>
      [] reg = "rdi" -> <<7, 4>>
      [] reg = "r8" -> <<8, 64>>
      [] reg = "r9" -> <<9, 64>>
      [] reg = "r10" -> <<10, 64>>
      [] reg = "r11" -> <<11, 64>>
      [] reg = "r12" -> <<12, 64>>
      [] reg = "r13" -> <<13, 64>>
      [] reg = "r14" -> <<14, 64>>
      [] reg = "r15" -> <<15, 64>>
      [] reg = "rip" -> <<18, 64>>
      [] OTHER -> <<>>

\* the tuple every error carries: (base_idx, index_idx, disp, fault_address)
FaultTuple(b, i, d, a) == [base_idx |-> b, index_idx |-> i, disp |-> d, fault_address |-> a]

\* an error of the given kind; chunk is the metadata of a read/write error
AsanError(kind, rg, actual_pc, ft, chunk) ==
    [kind |-> kind, pc |-> actual_pc, fault |-> ft, chunk |-> chunk]

\* handle_trap, x86-64, after its first statement: what it reports and how
\* it got there.  insn is the instruction decoded at regs[18].
handle_trap_x86(rg, insn, allocs) ==
    LET fault_address == rg[17]
        actual_pc == rg[18]
        access_type == IF ~insn.mem THEN "None"
                       ELSE IF insn.mem_first THEN "Write" ELSE "Read"
        has_regs == insn.mem /\ insn.details
        base == register_idx(insn.base)
        index == register_idx(insn.index)
        base_idx == IF base = <<>> THEN {} ELSE {base[1]}
        base_value == IF base = <<>> THEN {}
                      ELSE IF base[2] = 64 THEN {rg[base[1]]}
                      ELSE {LowHalf(rg[base[1]])}
        index_idx == IF index = <<>> THEN {} ELSE {index[1]}
        ft == FaultTuple(base_idx, index_idx, insn.disp, fault_address)
        in_stack == fault_address >= current_stack[1] /\ fault_address < current_stack[2]
        consulted == has_regs /\ ~in_stack /\ base_value # {}
        found == IF consulted
                 THEN find_metadata(allocs, fault_address, CHOOSE v \in base_value : TRUE)
                 ELSE {}
        kind ==
            IF ~has_regs THEN "Unknown"
            ELSE IF in_stack
                 THEN CASE access_type = "Read" -> "StackOobRead"
                        [] access_type = "Write" -> "StackOobWrite"
                        [] OTHER -> "Unknown"
            ELSE IF base_value # {}
                 THEN IF found # {}
                      THEN LET metadata == CHOOSE c \in found : TRUE
                           IN  CASE access_type = "Read" ->
                                       IF metadata.freed THEN "ReadAfterFree" ELSE "OobRead"
                                 [] access_type = "Write" ->
                                       IF metadata.freed THEN "WriteAfterFree" ELSE "OobWrite"
                                 [] OTHER -> "Unknown"
                      ELSE "Unknown"
            ELSE "Unknown"
        with_chunk == kind \in {"ReadAfterFree", "OobRead", "WriteAfterFree", "OobWrite"}
    IN  [reported |-> TRUE,
         error |-> AsanError(kind, rg, actual_pc,
                             IF has_regs THEN ft ELSE FaultTuple({}, {}, 0, fault_address),
                             IF with_chunk THEN found ELSE {}),
         fault_address |-> fault_address,
         in_stack |-> in_stack,
         consulted |-> consulted,
         base_value |-> base_value,
         found |-> found]

\* the operands that make handle_trap (aarch64) go on
A64MemOperands == {"RegRegOffset", "RegPreIndex", "RegPostIndex", "RegPostIndexReg"}

\* handle_trap, aarch64.  insn is the instruction decoded at the resolved pc
\* (the stalked-address lookup of regs[31]); kind is its last operand.
handle_trap_a64(rg, insn, actual_pc, allocs) ==
    LET is_mem == insn.kind \in A64MemOperands
        base_reg == insn.base
        index_reg == IF insn.kind = "RegRegOffset" THEN insn.index ELSE 65535
        displacement == IF insn.kind = "RegPreIndex" THEN insn.disp ELSE 0
        fault_address == rg[base_reg] + displacement
        in_stack == fault_address >= current_stack[1] /\ fault_address < current_stack[2]
        consulted == is_mem /\ ~in_stack
        found == IF consulted THEN find_metadata(allocs, fault_address, rg[base_reg]) ELSE {}
        ft == FaultTuple({base_reg}, {index_reg}, displacement, fault_address)
        kind ==
            IF in_stack
            THEN IF insn.load THEN "StackOobRead" ELSE "StackOobWrite"
            ELSE IF found # {}
                 THEN LET metadata == CHOOSE c \in found : TRUE
                      IN  IF insn.load
                          THEN IF metadata.freed THEN "ReadAfterFree" ELSE "OobRead"
                          ELSE IF metadata.freed THEN "WriteAfterFree" ELSE "OobWrite"
            ELSE "Unknown"
    IN  [reported |-> is_mem,
         error |-> AsanError(kind, rg, actual_pc, ft,
                             IF ~in_stack /\ found # {} THEN found ELSE {}),
         fault_address |-> fault_address,
         in_stack |-> in_stack,
         consulted |-> consulted,
         base_value |-> {rg[base_reg]},
         found |-> found]

\* handle_trap of the build
handle_trap(a, rg, insn, actual_pc, allocs) ==
    IF a = "x86_64" THEN handle_trap_x86(rg, insn, allocs)
    ELSE handle_trap_a64(rg, insn, actual_pc, allocs)

\* self.hooks_enabled after the first statement of handle_trap
handle_trap_entry_hooks(a, hooks) == IF a = "x86_64" THEN FALSE ELSE hooks

(***************************************************************************)
(* The instructions a trap is taken on, and what the report blob saved.    *)
(***************************************************************************)
\* the operands of the x86-64 instructions a trap is taken on: a pure
\* displacement, and a base register of either saved size
TrapOperands ==
    {[width |-> 4, base |-> "none", index |-> "none", scale |-> 1, disp |-> 80],
     [width |-> 4, base |-> "rbx", index |-> "none", scale |-> 1, disp |-> 0],
     [width |-> 4, base |-> "r8", index |-> "rcx", scale |-> 1, disp |-> 0]}

\* values of the operand's base register: in the stack, at the start of a chunk
BaseValues == {20, 72}

\* the guest's registers when it reaches the instruction
TrapGuest(o, basev, idxv) ==
    LET g == GuestCpu(0)
    IN  [g EXCEPT !.r = [x \in X86Regs |->
                            IF x = o.base THEN basev
                            ELSE IF x = o.index THEN idxv
                            ELSE g.r[x]]]

\* the thread when the embedded check blob is entered
x86_at_check(o, basev, idxv) ==
    emit_materialize(emit_spill(TrapGuest(o, basev, idxv)), o, TrueRip(0))

\* what yaxpeax decodes at regs[18]: the instrumented instruction, its memory
\* operand first (a store) or not (a load)
x86_decoded(o, first) ==
    [mem |-> TRUE, mem_first |-> first, details |-> TRUE,
     base |-> o.base, index |-> o.index, disp |-> o.disp]

\* the aarch64 instructions that are instrumented, by their memory operand
A64Insns ==
    [kind : A64MemOperands, load : BOOLEAN, base : {2}, index : {3}, disp : {8}]

\* the widths a trap is taken with on aarch64: one with a bit-test blob, one
\* with an exact-mask blob
A64TrapWidths == {4, 3}

\* the instruction emit_shadow_check puts at the done label: msr nzcv, x0
\* after an exact-mask blob, else ldp x0, x1, [sp], #(16 + redzone)
a64_insn_at_done(width) ==
    IF width \in ExactWidths
    THEN [kind |-> "Other", load |-> FALSE, base |-> 0, index |-> 0, disp |-> 0]
    ELSE [kind |-> "RegPostIndex", load |-> TRUE, base |-> 31, index |-> 0, disp |-> 0]

\* actual_pc: the stalked-address lookup of regs[31]
a64_actual_pc(rg, stalked) ==
    IF rg[31] \in DOMAIN stalked THEN stalked[rg[31]] ELSE rg[31]

\* the instruction handle_trap decodes at actual_pc
a64_decoded(actual_pc, insn, width) ==
    IF actual_pc = TrueRip(0) THEN insn ELSE a64_insn_at_done(width)

\* self.regs as the aarch64 report blob leaves it: the guest's x0..x30, and
\* x1 of the failing check blob (adr x1, >done) in regs[31]
a64_report_save(insn, basev) ==
    [i \in 0..(ASAN_SAVE_REGISTER_COUNT_AARCH64 - 1) |->
        CASE i = insn.base -> basev
          [] i = 31 -> DoneAddr
          [] OTHER -> 0]

NoFault ==
    [active |-> FALSE, handled |-> FALSE, insn |-> <<>>, width |-> 0,
     hooks_before |-> FALSE, nerr |-> 0, result |-> <<>>]

(***************************************************************************)
(* The runtime's lifecycle.                                                *)
(***************************************************************************)
\* as post_exec_order, with the allocator reset before the leak check
post_exec_order_reset_first ==
    <<"disable_hooks", "reset_allocations", "check_for_leaks", "poison">>

\* enable_hooks: self.hooks_enabled = true
enable_hooks(hooks) == TRUE

\* as disable_hooks, leaving the flag as it is
disable_hooks_keeps(hooks) == hooks

\* disable_hooks: self.hooks_enabled = false
disable_hooks(hooks) == FALSE

\* the statements of post_exec, in the order of the source
post_exec_order == <<"disable_hooks", "check_for_leaks", "poison", "reset_allocations">>

MaxThreads == 2

Threads == 1..MaxThreads

\* no thread is inside the runtime, no executor is built
InitThreads ==
    /\ threads = [t \in Threads |-> "idle"]
    /\ collector_lock = {}
    /\ qemu = [status |-> "none", fork |-> FALSE, first_exec |-> FALSE, calls |-> 0]
    /\ qemu_trace = <<>>
    /\ forkexec = [executions |-> 0, calls |-> 0, parent |-> "idle", child |-> "none"]

\* nothing mapped, no call made
InitUnitVars ==
    /\ shadow = {}
    /\ shadow_ops = <<>>
    /\ unit_fn = "none"
    /\ unit_in = <<>>
    /\ unit_out = <<>>
    /\ InitThreads

\* Default::default(): everything but the options
InitRuntimeCore ==
    /\ hooks_enabled = FALSE
    /\ phase = "new"
    /\ pc = "idle"
    /\ post_pos = 0
    /\ post_trace = <<>>
    /\ allocations = {}
    /\ input_poisoned = TRUE
    /\ errors = <<>>
    /\ fault = NoFault
    /\ execs = 0
    /\ stalked_addresses = [a \in {} |-> 0]
    /\ last_call = "new"

InitRuntimeState ==
    /\ InitRuntimeCore
    /\ InitUnitVars

InitRuntimeVars ==
    /\ check_for_leaks_enabled = FALSE
    /\ InitRuntimeState

(***************************************************************************)
(* SpecEmit: one instrumented x86-64 instruction runs from the first       *)
(* emitted instruction to the original instruction.                        *)
(***************************************************************************)
Operands ==
    [width : EmitWidths, base : OperandRegs, index : OperandRegs,
     scale : {1, 2, 4, 8}, disp : {8 * d : d \in (-MaxDisp)..MaxDisp}]

IdleOperand == [width |-> 1, base |-> "none", index |-> "none", scale |-> 1, disp |-> 0]

InitEmitVars ==
    /\ epc = "idle"
    /\ cpu = GuestCpu(0)
    /\ opnd = IdleOperand
    /\ seed = 0

InitRegs == regs = [i \in 0..(ASAN_SAVE_REGISTER_COUNT - 1) |-> 0]

InitEmit ==
    /\ arch = "x86_64"
    /\ shadow_bit = 1
    /\ window \in {0, 65535}
    /\ InitBlobVars
    /\ epc = "start"
    /\ seed \in 0..MaxSeed
    /\ cpu = GuestCpu(seed)
    /\ opnd \in Operands
    /\ InitRegs
    /\ continue_on_error \in BOOLEAN
    /\ InitRuntimeVars

Spill ==
    /\ epc = "start"
    /\ cpu' = emit_spill(cpu)
    /\ epc' = "spilled"
    /\ UNCHANGED <<blobvars, opnd, seed, regs, continue_on_error, rtvars>>

Materialize ==
    /\ epc = "spilled"
    /\ cpu' = emit_materialize(cpu, opnd, TrueRip(seed))
    /\ epc' = "materialized"
    /\ UNCHANGED <<blobvars, opnd, seed, regs, continue_on_error, rtvars>>

\* no blob for this width: the restore follows directly
SkipCheck ==
    /\ epc = "materialized"
    /\ ~emit_checked(opnd.width)
    /\ epc' = "done"
    /\ UNCHANGED <<blobvars, cpu, opnd, seed, regs, continue_on_error, rtvars>>

\* the embedded blob runs; done lies in the NOPs before the restore, the
\* failing path falls into the jmp to the report blob
CheckBlob ==
    /\ epc = "materialized"
    /\ emit_checked(opnd.width)
    /\ LET pass == x86_check(window, cpu.r["rdi"], x86_bit_arg(opnd.width))
       IN  /\ cpu' = x86_blob_effect(cpu, x86_bit_arg(opnd.width), pass)
           /\ epc' = IF pass THEN "done" ELSE "report"
    /\ UNCHANGED <<blobvars, opnd, seed, regs, continue_on_error, rtvars>>

ReportSave ==
    /\ epc = "report"
    /\ regs' = report_save(cpu)
    /\ cpu' = report_before_call(cpu)
    /\ epc' = "in_handler"
    /\ UNCHANGED <<blobvars, opnd, seed, continue_on_error, rtvars>>

\* handle_trap reports; with continue_on_error unset the process ends there
TrapReturns ==
    /\ epc = "in_handler"
    /\ IF continue_on_error
       THEN /\ cpu' = after_call(cpu)
            /\ epc' = "trap_returned"
       ELSE /\ cpu' = cpu
            /\ epc' = "aborted"
    /\ UNCHANGED <<blobvars, opnd, seed, regs, continue_on_error, rtvars>>

ReportRestore ==
    /\ epc = "trap_returned"
    /\ cpu' = report_restore(cpu, regs)
    /\ epc' = "done"
    /\ UNCHANGED <<blobvars, opnd, seed, regs, continue_on_error, rtvars>>

Restore ==
    /\ epc = "done"
    /\ cpu' = emit_restore(cpu)
    /\ epc' = "guest"
    /\ UNCHANGED <<blobvars, opnd, seed, regs, continue_on_error, rtvars>>

NextEmit ==
    \/ Spill
    \/ Materialize
    \/ SkipCheck
    \/ CheckBlob
    \/ ReportSave
    \/ TrapReturns
    \/ ReportRestore
    \/ Restore

SpecEmit == InitEmit /\ [][NextEmit]_vars

(***************************************************************************)
(* SpecBlob: a check blob runs on an address and a shadow window.          *)
(***************************************************************************)
InitBlob ==
    /\ arch \in Archs
    /\ shadow_bit \in 1..MaxShadowBit
    /\ window \in Windows
    /\ InitBlobVars
    /\ InitEmitVars
    /\ InitRegs
    /\ continue_on_error = FALSE
    /\ InitRuntimeVars

\* the blob of a power-of-two width, embedded by emit_shadow_check
RunShadowCheckBlob ==
    /\ blob_kind = "none"
    /\ \E u \in 0..MaxAddr, width \in PowWidths :
        /\ blob_kind' = "pow2"
        /\ blob_u' = u
        /\ blob_width' = width
        /\ blob_addr' = blob_shadow_addr(arch, shadow_bit, u)
        /\ blob_pass' = blob_check(arch, window, u, width)
        /\ UNCHANGED <<arch, shadow_bit, window, emitvars, regs, continue_on_error, rtvars>>

\* the exact-mask blob (AArch64 only)
RunShadowCheckExactBlob ==
    /\ arch = "aarch64"
    /\ blob_kind = "none"
    /\ \E u \in 0..MaxAddr, width \in ExactWidths :
        /\ blob_kind' = "exact"
        /\ blob_u' = u
        /\ blob_width' = width
        /\ blob_addr' = a64_shadow_addr(shadow_bit, u)
        /\ blob_pass' = a64_check_exact(window, u, a64_exact_arg(width))
        /\ UNCHANGED <<arch, shadow_bit, window, emitvars, regs, continue_on_error, rtvars>>

NextBlob == RunShadowCheckBlob \/ RunShadowCheckExactBlob

SpecBlob == InitBlob /\ [][NextBlob]_vars

(***************************************************************************)
(* Spec: the runtime from construction through init, pre_exec, the target  *)
(* running with failed checks, and post_exec.                              *)
(***************************************************************************)
static == <<blobvars, emitvars, continue_on_error, check_for_leaks_enabled, unitvars>>

\* AsanRuntime::new(options)
Init ==
    /\ arch \in Archs
    /\ shadow_bit = 1
    /\ window = 0
    /\ InitBlobVars
    /\ InitEmitVars
    /\ regs = [i \in 0..(RegsCount(arch) - 1) |-> 0]
    /\ continue_on_error \in BOOLEAN
    /\ check_for_leaks_enabled \in BOOLEAN
    /\ InitRuntimeState

\* init: ASAN_ERRORS = Some(AsanErrors::new(..)), blobs, hooks registered
RuntimeInit ==
    /\ phase = "new"
    /\ pc = "idle"
    /\ phase' = "ready"
    /\ errors' = <<>>
    /\ last_call' = "init"
    /\ UNCHANGED <<static, regs, hooks_enabled, pc, post_pos, post_trace, allocations,
                   input_poisoned, fault, execs, stalked_addresses>>

\* pre_exec: unpoison the input, enable_hooks
PreExec ==
    /\ phase = "ready"
    /\ pc = "idle"
    /\ execs < MaxExecs
    /\ input_poisoned' = FALSE
    /\ hooks_enabled' = enable_hooks(hooks_enabled)
    /\ last_call' = "pre_exec"
    /\ phase' = "executing"
    /\ execs' = execs + 1
    /\ post_trace' = <<>>
    /\ UNCHANGED <<static, regs, pc, post_pos, allocations, errors, fault,
                   stalked_addresses>>

EnableHooks ==
    /\ phase # "new"
    /\ pc = "idle"
    /\ hooks_enabled' = enable_hooks(hooks_enabled)
    /\ last_call' = "enable_hooks"
    /\ UNCHANGED <<static, regs, phase, pc, post_pos, post_trace, allocations,
                   input_poisoned, errors, fault, execs, stalked_addresses>>

DisableHooks ==
    /\ phase # "new"
    /\ pc = "idle"
    /\ hooks_enabled' = disable_hooks(hooks_enabled)
    /\ last_call' = "disable_hooks"
    /\ UNCHANGED <<static, regs, phase, pc, post_pos, post_trace, allocations,
                   input_poisoned, errors, fault, execs, stalked_addresses>>

AddStalkedAddress ==
    /\ phase # "new"
    /\ pc = "idle"
    /\ stalked_addresses' = Store(stalked_addresses, DoneAddr, TrueRip(0))
    /\ UNCHANGED <<static, last_call, regs, hooks_enabled, phase, pc, post_pos, post_trace,
                   allocations, input_poisoned, errors, fault, execs>>

\* the target calls malloc: the registered hook runs hook_malloc
TargetMalloc ==
    /\ phase = "executing"
    /\ pc = "idle"
    /\ \E h \in HeapChunks :
        /\ \A c \in allocations : c.ptr # h.ptr
        /\ allocations' = Alloc(allocations, h)
    /\ UNCHANGED <<static, last_call, regs, hooks_enabled, phase, pc, post_pos, post_trace,
                   input_poisoned, errors, fault, execs, stalked_addresses>>

\* the target calls free on a live chunk: the registered hook runs hook_free
TargetFree ==
    /\ phase = "executing"
    /\ pc = "idle"
    /\ \E c \in Live(allocations) : allocations' = Free(allocations, c)
    /\ UNCHANGED <<static, last_call, regs, hooks_enabled, phase, pc, post_pos, post_trace,
                   input_poisoned, errors, fault, execs, stalked_addresses>>

\* x86-64: an instrumented instruction fails its check; the report blob
\* fills self.regs and calls handle_trap, which runs its first statement
FailedCheckX86 ==
    /\ arch = "x86_64"
    /\ phase = "executing"
    /\ pc = "idle"
    /\ Len(errors) < MaxErrors
    /\ \E o \in TrapOperands, basev \in BaseValues, first \in BOOLEAN :
        LET m == x86_at_check(o, basev, 8)
            bit == x86_bit_arg(o.width)
        IN  /\ ~x86_check(window, m.r["rdi"], bit)
            /\ regs' = report_save(x86_blob_effect(m, bit, FALSE))
            /\ fault' = [active |-> TRUE, handled |-> FALSE,
                         insn |-> x86_decoded(o, first), width |-> o.width,
                         hooks_before |-> hooks_enabled, nerr |-> Len(errors),
                         result |-> <<>>]
    /\ hooks_enabled' = handle_trap_entry_hooks(arch, hooks_enabled)
    /\ pc' = "in_trap"
    /\ last_call' = "handle_trap"
    /\ UNCHANGED <<static, phase, post_pos, post_trace, allocations, input_poisoned,
                   errors, execs, stalked_addresses>>

\* aarch64: the same; x0 of the check blob is base + displacement
FailedCheckA64 ==
    /\ arch = "aarch64"
    /\ phase = "executing"
    /\ pc = "idle"
    /\ Len(errors) < MaxErrors
    /\ \E insn \in A64Insns, width \in A64TrapWidths, basev \in BaseValues :
        LET x0 == basev + (IF insn.kind = "RegPreIndex" THEN insn.disp ELSE 0)
        IN  /\ IF width \in ExactWidths
               THEN ~a64_check_exact(window, x0, a64_exact_arg(width))
               ELSE ~a64_check(window, x0, a64_bit_arg(width))
            /\ regs' = a64_report_save(insn, basev)
            /\ fault' = [active |-> TRUE, handled |-> FALSE, insn |-> insn,
                         width |-> width, hooks_before |-> hooks_enabled,
                         nerr |-> Len(errors), result |-> <<>>]
    /\ hooks_enabled' = handle_trap_entry_hooks(arch, hooks_enabled)
    /\ pc' = "in_trap"
    /\ last_call' = "handle_trap"
    /\ UNCHANGED <<static, phase, post_pos, post_trace, allocations, input_poisoned,
                   errors, execs, stalked_addresses>>

\* the rest of handle_trap: decode, classify, report; report_error ends the
\* process unless continue_on_error is set
HandleTrap ==
    /\ pc = "in_trap"
    /\ LET actual_pc == IF arch = "x86_64" THEN regs[18]
                        ELSE a64_actual_pc(regs, stalked_addresses)
           decoded == IF arch = "x86_64" THEN fault.insn
                      ELSE a64_decoded(actual_pc, fault.insn, fault.width)
           res == handle_trap(arch, regs, decoded, actual_pc, allocations)
       IN  /\ errors' = IF res.reported THEN report_error(errors, res.error) ELSE errors
           /\ fault' = [fault EXCEPT !.handled = TRUE, !.result = res]
           /\ pc' = IF res.reported /\ ~continue_on_error THEN "aborted"
                    ELSE "trap_returned"
    /\ UNCHANGED <<static, last_call, regs, hooks_enabled, phase, post_pos, post_trace,
                   allocations, input_poisoned, execs, stalked_addresses>>

\* the report blob restores the registers and branches to done
TrapResume ==
    /\ pc = "trap_returned"
    /\ pc' = "idle"
    /\ fault' = NoFault
    /\ UNCHANGED <<static, last_call, regs, hooks_enabled, phase, post_pos, post_trace,
                   allocations, input_poisoned, errors, execs, stalked_addresses>>

\* post_exec is at the statement op
PostExecAt(op) ==
    /\ phase = "executing"
    /\ pc = (IF post_pos = 0 THEN "idle" ELSE "post_exec")
    /\ post_pos < Len(post_exec_order)
    /\ post_exec_order[post_pos + 1] = op

\* the statement op has run (ran), and the process went on or was ended
PostExecAdvance(op, ran, ended) ==
    /\ post_trace' = IF ran
                     THEN Append(post_trace, [op |-> op, hooks |-> hooks_enabled,
                                              live |-> Live(allocations)])
                     ELSE post_trace
    /\ IF ended
       THEN /\ pc' = "aborted"
            /\ post_pos' = post_pos + 1
            /\ phase' = phase
            /\ last_call' = "in_post_exec"
       ELSE IF post_pos + 1 = Len(post_exec_order)
       THEN /\ pc' = "idle"
            /\ post_pos' = 0
            /\ phase' = "ready"
            /\ last_call' = "post_exec"
       ELSE /\ pc' = "post_exec"
            /\ post_pos' = post_pos + 1
            /\ phase' = phase
            /\ last_call' = "in_post_exec"

\* self.disable_hooks();
PostExecDisableHooks ==
    /\ PostExecAt("disable_hooks")
    /\ hooks_enabled' = disable_hooks(hooks_enabled)
    /\ PostExecAdvance("disable_hooks", TRUE, FALSE)
    /\ UNCHANGED <<static, regs, allocations, input_poisoned, errors, fault, execs,
                   stalked_addresses>>

\* if self.check_for_leaks_enabled { self.check_for_leaks(); }
PostExecCheckForLeaks ==
    /\ PostExecAt("check_for_leaks")
    /\ IF check_for_leaks_enabled
       THEN /\ errors' = check_for_leaks(errors, allocations, continue_on_error)
            /\ PostExecAdvance("check_for_leaks", TRUE,
                               Live(allocations) # {} /\ ~continue_on_error)
       ELSE /\ errors' = errors
            /\ PostExecAdvance("check_for_leaks", FALSE, FALSE)
    /\ UNCHANGED <<static, regs, hooks_enabled, allocations, input_poisoned, fault,
                   execs, stalked_addresses>>

\* self.poison(slice.as_ptr() as usize, slice.len());
PostExecPoison ==
    /\ PostExecAt("poison")
    /\ input_poisoned' = TRUE
    /\ PostExecAdvance("poison", TRUE, FALSE)
    /\ UNCHANGED <<static, regs, hooks_enabled, allocations, errors, fault, execs,
                   stalked_addresses>>

\* self.reset_allocations();
PostExecResetAllocations ==
    /\ PostExecAt("reset_allocations")
    /\ allocations' = Reset(allocations)
    /\ PostExecAdvance("reset_allocations", TRUE, FALSE)
    /\ UNCHANGED <<static, regs, hooks_enabled, input_poisoned, errors, fault, execs,
                   stalked_addresses>>

Next ==
    \/ RuntimeInit
    \/ PreExec
    \/ EnableHooks
    \/ DisableHooks
    \/ AddStalkedAddress
    \/ TargetMalloc
    \/ TargetFree
    \/ FailedCheckX86
    \/ FailedCheckA64
    \/ HandleTrap
    \/ TrapResume
    \/ PostExecDisableHooks
    \/ PostExecCheckForLeaks
    \/ PostExecPoison
    \/ PostExecResetAllocations

Spec == Init /\ [][Next]_vars

(***************************************************************************)
(* Properties.                                                             *)
(***************************************************************************)
\* the validity bits of the accessed bytes that lie in the loaded window
AllBytesValid(w, u, n) ==
    \A i \in 0..(n - 1) : ((u % 8) + i < 16) => ValidityBit(w, u, i) = 1

\* C2: the blob embedded for a power-of-two width n reaches done if and only
\* if every validity bit of [u, u+n) in the loaded window is set
C2_PassIffAllBytesValid ==
    blob_kind = "pow2" => (blob_pass <=> AllBytesValid(window, blob_u, blob_width))

\* C3: the exact-mask blob of width w reaches done if and only if the validity
\* bit of every one of the w accessed bytes in the window is set (its mask
\* covers exactly those bits and all of them must be set)
C3_ExactPassIffAllBytesValid ==
    blob_kind = "exact" => (blob_pass <=> AllBytesValid(window, blob_u, blob_width))

\* (u >> 3) & ((1 << (k+1)) - 1)
MaskedIndex(u, k) == BitAnd(Shr(u, 3), Pow2(k + 1) - 1)

\* C4 as stated: the blob loads its window from
\* ((u >> 3) & ((1 << (k+1)) - 1)) | (1 << k), for every u
C4_ShadowAddrIsOr ==
    blob_kind # "none" => blob_addr = BitOr(MaskedIndex(blob_u, shadow_bit), Pow2(shadow_bit))

\* C4 amended: the blob loads its window from
\* ((u >> 3) & ((1 << (k+1)) - 1)) + (1 << k) on both architectures, which
\* is the bitwise OR exactly when bit k of u >> 3 is clear
C4_ShadowAddrIsSum ==
    blob_kind # "none" =>
        /\ blob_addr = MaskedIndex(blob_u, shadow_bit) + Pow2(shadow_bit)
        /\ (blob_addr = BitOr(MaskedIndex(blob_u, shadow_bit), Pow2(shadow_bit)))
              <=> (Shr(blob_u, 3 + shadow_bit) % 2 = 0)

\* a blob ran on an address whose bit k of u >> 3 is set
C4_Witness ==
    /\ blob_kind = "pow2"
    /\ Shr(blob_u, 3 + shadow_bit) % 2 = 1
    /\ blob_addr = MaskedIndex(blob_u, shadow_bit) + Pow2(shadow_bit)

\* what a base or index contributes to the guest's effective address
GuestValue(x, s) ==
    CASE x = "none" -> 0
      [] x = "rip" -> TrueRip(s)
      [] OTHER -> GuestCpu(s).r[x]

EffectiveAddress(o, s) == GuestValue(o.base, s) + (GuestValue(o.index, s) * o.scale) + o.disp

\* C7: when the fault handler runs, regs[0..15] hold the guest's registers
\* in the order of ASAN_SAVE_REGISTER_NAMES, regs[16] the done address,
\* regs[17] the checked address and regs[18] the original guest pc
C7_RegsHoldGuestRegisters ==
    epc = "in_handler" =>
        /\ \A i \in 0..15 : regs[i] = GuestCpu(seed).r[ASAN_SAVE_REGISTER_NAMES[i + 1]]
        /\ regs[16] = DoneAddr
        /\ regs[17] = EffectiveAddress(opnd, seed)
        /\ regs[18] = TrueRip(seed)

\* C8: when control reaches the original instruction, every general-purpose
\* register, the stack pointer and the flags hold their values from before
\* the sequence
C8_SequenceIsTransparent ==
    epc = "guest" =>
        /\ cpu.r = GuestCpu(seed).r
        /\ cpu.f = GuestCpu(seed).f

\* the original instruction is reached after a return from the report blob
C8_Witness ==
    /\ epc = "guest"
    /\ regs[16] = DoneAddr
    /\ cpu.r = GuestCpu(seed).r

\* C9: when the check blob starts, rdi holds base + index * scale + disp of
\* the guest's register values before the sequence
C9_RdiIsEffectiveAddress ==
    epc = "materialized" => cpu.r["rdi"] = EffectiveAddress(opnd, seed)

\* the address of an operand [rsp + rdi * 8 + disp] has been materialized
C9_Witness ==
    /\ epc = "materialized"
    /\ opnd.base = "rsp"
    /\ opnd.index = "rdi"
    /\ opnd.scale = 8
    /\ cpu.r["rdi"] = EffectiveAddress(opnd, seed)

(***************************************************************************)
(* The fault handler and the lifecycle (Spec).                             *)
(***************************************************************************)
\* the chunk the allocator returns for the handler's fault address and base
\* register value; an operand without base register has no hint to match
ExpectedMetadata ==
    LET r == fault.result
    IN  find_metadata(allocations, r.fault_address,
                      IF r.base_value = {} THEN -1 ELSE CHOOSE v \in r.base_value : TRUE)

\* C1: handle_trap classifies every fault: inside the stack range the error
\* is StackOobRead/StackOobWrite; outside it the allocator is consulted with
\* find_metadata(fault_addr, base_reg_value), operands without a base
\* register included, and the error is Read/WriteAfterFree for a freed
\* chunk, OobRead/OobWrite for a live chunk, and Unknown only when no chunk
\* is found.
C1_FaultClassification ==
    (fault.handled /\ fault.result.reported) =>
        LET r == fault.result
            kind == r.error.kind
        IN  IF r.in_stack
            THEN kind \in {"StackOobRead", "StackOobWrite"}
            ELSE IF ExpectedMetadata = {}
            THEN kind = "Unknown"
            ELSE LET metadata == CHOOSE c \in ExpectedMetadata : TRUE
                 IN  /\ r.error.chunk = ExpectedMetadata
                     /\ IF metadata.freed
                        THEN kind \in {"ReadAfterFree", "WriteAfterFree"}
                        ELSE kind \in {"OobRead", "OobWrite"}

\* C5: hooks_enabled is false at every point during handle_trap, and once
\* the handler has returned it has its pre-fault value again.
C5_HooksOffInHandlerRestoredOnExit ==
    /\ (pc = "in_trap" => ~hooks_enabled)
    /\ (pc = "trap_returned" => hooks_enabled = fault.hooks_before)

\* C6: every entry into handle_trap from a failed check has appended exactly
\* one error to the collector when the handler is through, whatever the
\* instruction it decoded.
C6_OneErrorPerTrap ==
    fault.handled => Len(errors) = fault.nerr + 1

\* the statements post_exec is to run, in order, under the configuration
ExpectedPostExec ==
    IF check_for_leaks_enabled
    THEN <<"disable_hooks", "check_for_leaks", "poison", "reset_allocations">>
    ELSE <<"disable_hooks", "poison", "reset_allocations">>

\* C10: post_exec runs disable hooks, leak detection (only when detect_leaks
\* is configured), poison, reset, in this order; leak detection sees the
\* chunks that were live when post_exec was entered, hooks_enabled is false
\* during leak detection, poisoning and reset, and after a complete
\* post_exec no chunk is left.
C10_PostExecOrder ==
    /\ Len(post_trace) <= Len(ExpectedPostExec)
    /\ \A i \in 1..Len(post_trace) :
        /\ post_trace[i].op = ExpectedPostExec[i]
        /\ (i > 1 => ~post_trace[i].hooks)
        /\ (post_trace[i].op = "check_for_leaks" =>
                /\ check_for_leaks_enabled
                /\ post_trace[i].live = post_trace[1].live)
    /\ (Len(post_trace) = Len(ExpectedPostExec) => allocations = {})

\* a complete post_exec with leak detection that saw a live chunk, entered
\* with hooks enabled
C10_Witness ==
    /\ Len(post_trace) = 4
    /\ post_trace[1].hooks
    /\ post_trace[2].op = "check_for_leaks"
    /\ post_trace[2].live # {}
    /\ post_trace[4].op = "reset_allocations"
    /\ phase = "ready"

\* C11: pre_exec unpoisons the input and enables the hooks: with no fault
\* taken since, hooks_enabled is false until the first pre_exec or
\* enable_hooks, true after every pre_exec and false after every post_exec.
C11_HooksFollowLifecycle ==
    /\ (last_call \in {"new", "init"} => ~hooks_enabled)
    /\ (last_call = "pre_exec" => (hooks_enabled /\ ~input_poisoned))
    /\ (last_call \in {"in_post_exec", "post_exec"} => ~hooks_enabled)
    /\ (last_call = "enable_hooks" => hooks_enabled)
    /\ (last_call = "disable_hooks" => ~hooks_enabled)

\* the second post_exec has returned, entered with the hooks enabled
C11_Witness ==
    /\ last_call = "post_exec"
    /\ execs = 2
    /\ post_trace[1].hooks
    /\ ~hooks_enabled

\* C12: hooks are gated by hooks_enabled: a registered hook that fires while
\* hooks_enabled is false passes through to the original function, so the
\* allocator's state does not change and no error is reported.
C12_HooksGated ==
    [][((TargetMalloc \/ TargetFree) /\ ~hooks_enabled) =>
            (allocations' = allocations /\ errors' = errors)]_vars

\* ---------------------------------------------------------------------
\* The shadow map under poison / unpoison
\* ---------------------------------------------------------------------

MaxLen == 9

ShadowGranule == 8

\* Allocator::map_to_shadow: the shadow byte holding the validity bit of
\* the address, given here by the user address of that byte's first bit
map_to_shadow(address) == address - (address % ShadowGranule)

\* Allocator::map_shadow_for_region(start, end, true): every bit of
\* [start, end) is set
map_shadow_for_region(sh, start, end) == sh \cup {a \in 0..MaxAddr : start <= a /\ a < end}

\* Allocator::poison(start, size): size validity bits are cleared from the
\* first bit of the shadow byte at start
Allocator_poison(sh, start, size) == sh \ {a \in 0..MaxAddr : start <= a /\ a < start + size}

\* AsanRuntime::unpoison
unpoison(sh, address, size) == map_shadow_for_region(sh, address, address + size)

\* AsanRuntime::poison
poison(sh, address, size) == Allocator_poison(sh, map_to_shadow(address), size)

\* the check of n bytes at u: every validity bit of [u, u + n) is set
check(sh, u, n) == \A a \in u..(u + n - 1) : a \in sh

ShadowRegions == {r \in [u : 0..MaxAddr, n : 1..MaxLen] : r.u + r.n <= MaxAddr + 1}

\* a runtime just constructed, nothing emitted, nothing running
InitIdle ==
    /\ arch = "x86_64"
    /\ shadow_bit = 1
    /\ window = 0
    /\ InitBlobVars
    /\ InitEmitVars
    /\ InitRegs
    /\ continue_on_error = FALSE
    /\ check_for_leaks_enabled = FALSE
    /\ InitRuntimeCore
    /\ InitThreads

idlevars == <<blobvars, emitvars, regs, continue_on_error, lifevars, threadvars, qemuvars>>

\* the region's bits are as the mapping left them: all clear or all set
InitShadow ==
    /\ InitIdle
    /\ shadow \in {{}, 0..MaxAddr}
    /\ shadow_ops = <<>>
    /\ unit_fn = "none"
    /\ unit_in = <<>>
    /\ unit_out = <<>>

Unpoison ==
    /\ Len(shadow_ops) < 2
    /\ \E r \in ShadowRegions :
        /\ shadow' = unpoison(shadow, r.u, r.n)
        /\ shadow_ops' = Append(shadow_ops, [op |-> "unpoison", u |-> r.u, n |-> r.n])
    /\ UNCHANGED <<idlevars, unit_fn, unit_in, unit_out>>

Poison ==
    /\ Len(shadow_ops) < 2
    /\ \E r \in ShadowRegions :
        /\ shadow' = poison(shadow, r.u, r.n)
        /\ shadow_ops' = Append(shadow_ops, [op |-> "poison", u |-> r.u, n |-> r.n])
    /\ UNCHANGED <<idlevars, unit_fn, unit_in, unit_out>>

NextShadow == Unpoison \/ Poison

SpecShadow == InitShadow /\ [][NextShadow]_vars

\* the last two calls were first then second, on the same region
SameRegionPair(first, second) ==
    /\ Len(shadow_ops) = 2
    /\ shadow_ops[1].op = first
    /\ shadow_ops[2].op = second
    /\ shadow_ops[1].u = shadow_ops[2].u
    /\ shadow_ops[1].n = shadow_ops[2].n

\* C13: poison and unpoison are byte-granular inverses on the shadow map:
\* after poison(u, n) then unpoison(u, n) the check of (u, n) is true, and
\* after unpoison(u, n) then poison(u, n) the check of (u, k) is false for
\* every 1 <= k <= n, at every alignment of u.
C13_PoisonUnpoisonInverse ==
    /\ (SameRegionPair("poison", "unpoison") =>
            check(shadow, shadow_ops[2].u, shadow_ops[2].n))
    /\ (SameRegionPair("unpoison", "poison") =>
            \A k \in 1..shadow_ops[2].n : ~check(shadow, shadow_ops[2].u, k))

\* ---------------------------------------------------------------------
\* Functions of the runtime called on their own
\* ---------------------------------------------------------------------

None == {}

Some(x) == {x}

\* the opcodes asan_is_interesting_instruction (aarch64) ignores
A64IgnoredOpcodes ==
    {"LDAXR", "STLXR", "LDXR", "LDAR", "STLR", "LDARB", "LDAXP", "LDAXRB", "LDAXRH",
     "STLRB", "STLRH", "STLXP", "STLXRB", "STLXRH", "LDXRB", "LDXRH", "STXRB", "STXRH"}

\* the exclusive and acquire-release loads and stores the decoder knows
A64ExclusiveOpcodes == A64IgnoredOpcodes \cup {"STXR", "LDXP", "STXP", "LDARH"}

A64Opcodes == A64ExclusiveOpcodes \cup {"LDR", "STR", "LDP", "ADD"}

A64OperandKinds ==
    {"Register", "Immediate", "PCOffset", "RegRegOffset", "RegPreIndex", "RegPostIndex",
     "RegPostIndexReg"}

\* the decoder's slice of four operands: registers, then the last operand,
\* then Operand::Nothing
A64Operands(len, last) ==
    [i \in 1..4 |-> IF i < len THEN "Register" ELSE IF i = len THEN last ELSE "Nothing"]

A64DecodedInsns ==
    {[opcode |-> o, operands |-> A64Operands(len, last), reg1 |-> 2, reg2 |-> 3,
      disp |-> d, width |-> 8] :
        o \in A64Opcodes, len \in 0..4, last \in A64OperandKinds, d \in {0, 8}}

\* the memory operand of an exclusive or acquire-release access is [Xn],
\* decoded as a pre-index operand with no displacement
A64ExclusiveInsns ==
    {i \in A64DecodedInsns :
        /\ i.opcode \in A64ExclusiveOpcodes
        /\ \E len \in 2..3 : i.operands = A64Operands(len, "RegPreIndex")
        /\ i.disp = 0}

\* asan_is_interesting_instruction (aarch64)
asan_is_interesting_instruction_a64(instr) ==
    LET positions == {i \in 1..4 : instr.operands[i] = "Nothing"}
        operands_len == IF positions = {} THEN 4
                        ELSE (CHOOSE i \in positions : \A j \in positions : i <= j) - 1
        last == instr.operands[operands_len]
    IN  IF instr.opcode \in A64IgnoredOpcodes THEN None
        ELSE IF operands_len < 2 THEN None
        ELSE IF last = "RegRegOffset"
            THEN Some([reg1 |-> instr.reg1, reg2 |-> Some(instr.reg2), disp |-> 0,
                       width |-> instr.width, shift |-> TRUE])
        ELSE IF last = "RegPreIndex"
            THEN Some([reg1 |-> instr.reg1, reg2 |-> None, disp |-> instr.disp,
                       width |-> instr.width, shift |-> FALSE])
        ELSE IF last \in {"RegPostIndex", "RegPostIndexReg"}
            THEN Some([reg1 |-> instr.reg1, reg2 |-> None, disp |-> 0,
                       width |-> instr.width, shift |-> FALSE])
        ELSE None

X86Opcodes == {"LEA", "NOP", "MOV", "MOVS", "ADD"}

\* an operand: whether it is a memory operand, and whether operand_details
\* gives its parts
X86OperandKinds ==
    {[mem |-> FALSE, details |-> FALSE], [mem |-> TRUE, details |-> TRUE],
     [mem |-> TRUE, details |-> FALSE]}

X86DecodedInsns ==
    [opcode : X86Opcodes, rep_any : BOOLEAN,
     operands : {<<>>} \cup [1..1 -> X86OperandKinds] \cup [1..2 -> X86OperandKinds],
     memsz : {4}, basereg : {"rbx"}, indexreg : {"none"}, scale : {1}, disp : {0, 8}]

\* asan_is_interesting_instruction (x86_64)
asan_is_interesting_instruction_x86(cs_instr) ==
    LET found == {i \in 1..Len(cs_instr.operands) :
                      cs_instr.operands[i].mem /\ cs_instr.operands[i].details}
    IN  IF cs_instr.opcode \in {"LEA", "NOP"} THEN None
        ELSE IF cs_instr.rep_any THEN None
        ELSE IF found # {}
            THEN Some([memsz |-> cs_instr.memsz, basereg |-> cs_instr.basereg,
                       indexreg |-> cs_instr.indexreg, scale |-> cs_instr.scale,
                       disp |-> cs_instr.disp])
        ELSE None

\* displacement: i32, a sign and 31 bits, of which the split keeps 12 low
DisplacementBits == 31

DispHiParts ==
    {0, 1, 15} \cup {Pow2(b) + e : b \in 12..(DisplacementBits - 13), e \in {(-1), 0}}
               \cup {Pow2(DisplacementBits - 12) - 1}

DispLoParts == {0, 1, 4095}

\* the arguments of emit_shadow_check that reach the displacement: the base
\* register and an i32 displacement whose adjustment stays an i32
A64Displacements ==
    {[basereg |-> b, displacement |-> sgn * ((hi * 4096) + lo)] :
        b \in {"X1"}, sgn \in {(-1), 1}, hi \in DispHiParts, lo \in DispLoParts}
    \cup {[basereg |-> b, displacement |-> sgn * ((hi * 4096) + lo)] :
        b \in {"Sp"}, sgn \in {(-1), 1},
        hi \in DispHiParts \ {Pow2(DisplacementBits - 12) - 1}, lo \in DispLoParts}

\* the 32-bit word base | (hi << 10), as its ten top bits and its imm12
\* field; the words written have Rn = Rd = x0 and the bits 9..0 clear
a64_or_hi(top10, displacement_hi) ==
    [top10 |-> BitOr(top10, (displacement_hi \div 4096) % 1024),
     imm12 |-> displacement_hi % 4096]

\* 0x91400000 >> 22 and 0xd1400000 >> 22: add / sub x0, x0, #imm12, LSL #12
ADD_X0_LSL12 == 581

SUB_X0_LSL12 == 837

\* emit_shadow_check (aarch64): the instructions that apply the displacement
a64_emit_displacement(basereg, disp) ==
    LET displacement == disp + (IF basereg = "Sp" THEN 16 + GUM_RED_ZONE_SIZE ELSE 0)
        abs == IF displacement < 0 THEN -displacement ELSE displacement
        displacement_hi == abs \div 4096
        displacement_lo == abs % 4096
    IN  IF displacement < 0
        THEN IF displacement > -4096
             THEN <<[op |-> "sub_imm", imm |-> abs]>>
             ELSE <<[op |-> "bytes", word |-> a64_or_hi(SUB_X0_LSL12, displacement_hi)],
                    [op |-> "sub_imm", imm |-> displacement_lo]>>
        ELSE IF displacement > 0
        THEN IF displacement < 4096
             THEN <<[op |-> "add_imm", imm |-> abs]>>
             ELSE <<[op |-> "bytes", word |-> a64_or_hi(ADD_X0_LSL12, displacement_hi)],
                    [op |-> "add_imm", imm |-> displacement_lo]>>
        ELSE <<>>

\* what one emitted instruction adds to x0; None when the word written is
\* not an add or sub of an immediate to x0
a64_x0_change(insn) ==
    IF insn.op = "add_imm" THEN Some(insn.imm)
    ELSE IF insn.op = "sub_imm" THEN Some(-insn.imm)
    ELSE IF insn.word.top10 = ADD_X0_LSL12 THEN Some(insn.word.imm12 * 4096)
    ELSE IF insn.word.top10 = SUB_X0_LSL12 THEN Some(-(insn.word.imm12 * 4096))
    ELSE None

RECURSIVE a64_x0_total(_)
a64_x0_total(insns) ==
    IF insns = <<>> THEN Some(0)
    ELSE LET h == a64_x0_change(Head(insns))
             t == a64_x0_total(Tail(insns))
         IN  IF h = None \/ t = None THEN None
             ELSE Some((CHOOSE x \in h : TRUE) + (CHOOSE x \in t : TRUE))

\* "on amd64 jump can takes 10 bytes at most"
JmpMaxBytes == 10

\* for _ in 0..10 { writer.put_nop(); }
NopsAfterJmp == 10

\* ops_vec[..ops_vec.len() - 10]: the bytes cut from the end of the blob
BlobTruncation == 10

\* lea rsi, [>done]: done is the end of the assembled blob, BlobTruncation
\* bytes past the end of the bytes embedded, counted from that end
x86_done_offset == BlobTruncation

\* the jump and five one-byte nops
x86_checked_tail_five_nops(jmp_len) ==
    [nops |-> {jmp_len + i : i \in 0..4}, restore |-> jmp_len + 5]

\* what emit_shadow_check writes after the blob, as offsets from the end of
\* the blob: the jump to the report blob at 0, one-byte nops, the restore
x86_checked_tail(jmp_len) ==
    [nops |-> {jmp_len + i : i \in 0..(NopsAfterJmp - 1)}, restore |-> jmp_len + NopsAfterJmp]

\* movzx eax, WORD [rax + rdx] / ldrh w1, [x1, #0]: every 16-bit word
ShadowWords == 0..(Pow2(16) - 1)

MaxPage == 5         \* enumerated regions lie in 1..MaxPage

MemoryRanges == {r \in [start : 1..MaxPage, end : 1..MaxPage] : r.start < r.end}

\* RangeDetails::enumerate_with_prot: up to three regions in ascending
\* order, none overlapping another
Enumerations ==
    {<<>>} \cup {<<r>> : r \in MemoryRanges}
    \cup {x \in MemoryRanges \X MemoryRanges : x[1].end <= x[2].start}
    \cup {<<[start |-> 1, end |-> 2], [start |-> 2, end |-> 3], r>> :
                r \in {x \in MemoryRanges : 3 <= x.start}}

RangeQueries == [ranges : Enumerations, address : 0..(MaxPage + 1)]

\* the callback of range_for_address over the enumeration: the first region
\* it accepts ends the iteration
RECURSIVE range_for_address(_, _)
range_for_address(ranges, address) ==
    IF ranges = <<>> THEN <<0, 0>>
    ELSE LET range_start == Head(ranges).start
             range_end == Head(ranges).end
         IN  IF range_start <= address /\ range_end >= address
             THEN <<range_start, range_end>>
             ELSE range_for_address(Tail(ranges), address)

MaxInputLen == 2     \* inputs have at most MaxInputLen target bytes

\* BytesInput: the target bytes of an input
BytesInputs == UNION {[1..n -> {0, 1}] : n \in 0..MaxInputLen}

\* Result<ExitKind, Error>
Ok(kind) == [ok |-> TRUE, value |-> kind]

Err(error) == [ok |-> FALSE, value |-> error]

\* the arguments of run_target: what the fuzzer, the state and the event
\* manager hold, and the input
NopCalls == [fuzzer : 0..1, state : 0..1, mgr : 0..1, input : BytesInputs]

\* a run_target that accepts the empty input
NopExecutor_run_target_accepts_empty(fuzzer, state, mgr, input) ==
    [result |-> Ok("Ok"), fuzzer |-> fuzzer, state |-> state, mgr |-> mgr]

\* NopExecutor::run_target, with what it leaves in its &mut arguments
NopExecutor_run_target(fuzzer, state, mgr, input) ==
    [result |-> IF Len(input) = 0 THEN Err("Input Empty") ELSE Ok("Ok"),
     fuzzer |-> fuzzer, state |-> state, mgr |-> mgr]

\* an instrumented aarch64 access that fails its check: the memory operand
\* (base 31 is SP), the LSL amount of the index, and the guest's values
A64Accesses ==
    [kind : A64MemOperands, load : BOOLEAN, base : {2, 31}, index : {3}, disp : {0, 8},
     shift : {0, 3}, basev : BaseValues, indexv : {0, 1}]

\* the guest's x0..x30 and sp when the instrumented instruction is reached
A64Guest(a) ==
    [x |-> [i \in 0..30 |-> IF i = a.base THEN a.basev
                            ELSE IF i = a.index THEN a.indexv ELSE 0],
     sp |-> a.basev]

\* the operand asan_is_interesting_instruction hands to emit_shadow_check
A64Interesting(a) ==
    [basereg |-> a.base,
     indexreg |-> IF a.kind = "RegRegOffset" THEN Some(a.index) ELSE None,
     displacement |-> IF a.kind = "RegPreIndex" THEN a.disp ELSE 0,
     shift |-> IF a.kind = "RegRegOffset" THEN Some(a.shift) ELSE None]

\* emit_shadow_check (aarch64): x0 when the check blob starts. stp x0, x1,
\* [sp, #-(16 + redzone)]!; mov x0, base; mov x1, index; add x0, x0, x1,
\* lsl #amount; add / sub of the displacement
a64_checked_address(guest, o) ==
    LET sp == guest.sp - (16 + GUM_RED_ZONE_SIZE)
        x0 == IF o.basereg = 31 THEN sp ELSE guest.x[o.basereg]
        x1 == IF o.indexreg = None THEN 0
              ELSE guest.x[CHOOSE r \in o.indexreg : TRUE]
                        * Pow2(CHOOSE amount \in o.shift : TRUE)
        change == a64_x0_total(a64_emit_displacement(IF o.basereg = 31 THEN "Sp" ELSE "X1",
                                                     o.displacement))
    IN  x0 + x1 + (CHOOSE d \in change : TRUE)

\* self.regs as the report blob leaves it: x2..x30 stored, x0 and x1 read
\* back from the stack, and x1 of the check blob (adr x1, >done) at 0xf8
a64_report_regs(guest) ==
    [i \in 0..(ASAN_SAVE_REGISTER_COUNT_AARCH64 - 1) |->
        IF i = 31 THEN DoneAddr ELSE guest.x[i]]

\* the failing check and the handler that follows it
a64_fault_address(a) ==
    LET guest == A64Guest(a)
        insn == [kind |-> a.kind, load |-> a.load, base |-> a.base, index |-> a.index,
                 disp |-> a.disp]
    IN  [checked |-> a64_checked_address(guest, A64Interesting(a)),
         trap |-> handle_trap_a64(a64_report_regs(guest), insn, TrueRip(0), {})]

\* access widths without a check blob on either architecture
OtherWidths == {5, 128}

\* emit_shadow_check on an architecture, for an access width
TailCalls == [arch : Archs, width : PowWidths \cup ExactWidths \cup OtherWidths]

\* x86-64: the blob of the width, and if one was written the jump to the
\* report blob and the nops
x86_emit_tail(width) ==
    IF emit_checked(width) THEN <<"check_blob", "branch_report", "nops">> ELSE <<>>

\* aarch64: the blob of the width, the branch to the report blob, and
\* msr nzcv, x0 after the exact-width blobs
a64_emit_tail(width) ==
    (IF width \in PowWidths \cup ExactWidths THEN <<"check_blob">> ELSE <<>>)
        \o <<"branch_report">>
        \o (IF width \in ExactWidths THEN <<"msr_nzcv_x0">> ELSE <<>>)

emit_shadow_check_tail(a, width) ==
    IF a = "x86_64" THEN x86_emit_tail(width) ELSE a64_emit_tail(width)

UnitInputs(fn) ==
    IF fn = "asan_is_interesting_instruction_a64" THEN A64DecodedInsns
    ELSE IF fn = "asan_is_interesting_instruction_x86" THEN X86DecodedInsns
    ELSE IF fn = "emit_shadow_check_displacement" THEN A64Displacements
    ELSE IF fn \in {"x86_rearrange", "a64_rearrange"} THEN ShadowWords
    ELSE IF fn = "x86_done_address" THEN 1..JmpMaxBytes
    ELSE IF fn = "range_for_address" THEN RangeQueries
    ELSE IF fn = "NopExecutor_run_target" THEN NopCalls
    ELSE IF fn = "a64_fault_address" THEN A64Accesses
    ELSE IF fn = "emit_shadow_check_tail" THEN TailCalls
    ELSE {}

UnitFns ==
    {"asan_is_interesting_instruction_a64", "asan_is_interesting_instruction_x86",
     "emit_shadow_check_displacement", "x86_rearrange", "a64_rearrange",
     "x86_done_address", "range_for_address", "NopExecutor_run_target",
     "a64_fault_address", "emit_shadow_check_tail"}

InitUnits ==
    /\ InitIdle
    /\ shadow = {}
    /\ shadow_ops = <<>>
    /\ unit_fn \in UnitFns
    /\ unit_in \in UnitInputs(unit_fn)
    /\ unit_out = <<>>

\* the call returns
Returns(fn, result) ==
    /\ unit_fn = fn
    /\ unit_out = <<>>
    /\ unit_out' = <<result>>
    /\ UNCHANGED <<idlevars, shadow, shadow_ops, unit_fn, unit_in>>

Returned(fn) == unit_fn = fn /\ unit_out # <<>>

IsInterestingA64 ==
    Returns("asan_is_interesting_instruction_a64", asan_is_interesting_instruction_a64(unit_in))

IsInterestingX86 ==
    Returns("asan_is_interesting_instruction_x86", asan_is_interesting_instruction_x86(unit_in))

EmitDisplacement ==
    Returns("emit_shadow_check_displacement",
            a64_emit_displacement(unit_in.basereg, unit_in.displacement))

\* the rearrangement of the x86-64 blob, applied once and twice
RearrangeX86 ==
    Returns("x86_rearrange",
            [once |-> x86_rearrange(unit_in), twice |-> x86_rearrange(x86_rearrange(unit_in))])

\* the rearrangement of the aarch64 blob, applied once and twice
RearrangeA64 ==
    Returns("a64_rearrange",
            [once |-> a64_rearrange(unit_in), twice |-> a64_rearrange(a64_rearrange(unit_in))])

\* a check embedded with a jump of unit_in bytes
DoneAddress ==
    Returns("x86_done_address",
            [done |-> x86_done_offset, jmp_len |-> unit_in, tail |-> x86_checked_tail(unit_in)])

RangeForAddress ==
    Returns("range_for_address", range_for_address(unit_in.ranges, unit_in.address))

NopRunTarget ==
    Returns("NopExecutor_run_target",
            NopExecutor_run_target(unit_in.fuzzer, unit_in.state, unit_in.mgr, unit_in.input))

A64FaultAddress == Returns("a64_fault_address", a64_fault_address(unit_in))

EmitShadowCheckTail ==
    Returns("emit_shadow_check_tail", emit_shadow_check_tail(unit_in.arch, unit_in.width))

NextUnits ==
    \/ EmitShadowCheckTail
    \/ A64FaultAddress
    \/ NopRunTarget
    \/ RangeForAddress
    \/ DoneAddress
    \/ IsInterestingA64
    \/ IsInterestingX86
    \/ EmitDisplacement
    \/ RearrangeX86
    \/ RearrangeA64

SpecUnits == InitUnits /\ [][NextUnits]_vars

\* C14: asan_is_interesting_instruction returns None for the x86-64 lea and
\* nop and every rep-prefixed instruction, and for every AArch64 exclusive
\* or acquire-release instruction, STXR, LDXP, STXP and LDARH included.
C14_IgnoredInstructions ==
    /\ ((Returned("asan_is_interesting_instruction_x86")
            /\ (unit_in.opcode \in {"LEA", "NOP"} \/ unit_in.rep_any))
        => unit_out[1] = None)
    /\ ((Returned("asan_is_interesting_instruction_a64")
            /\ unit_in \in A64ExclusiveInsns)
        => unit_out[1] = None)

\* the displacement after the adjustment for a base of SP
AdjustedDisplacement ==
    unit_in.displacement + (IF unit_in.basereg = "Sp" THEN 16 + GUM_RED_ZONE_SIZE ELSE 0)

\* C15: on AArch64 the add / sub instructions emitted for a displacement d
\* change x0 by exactly d: one imm12 instruction when |d| < 4096, otherwise
\* a high part |d| / 4096 with LSL #12 and a low part |d| mod 4096, both
\* within their 12-bit fields.
C15_DisplacementExact ==
    Returned("emit_shadow_check_displacement") =>
        /\ a64_x0_total(unit_out[1]) = Some(AdjustedDisplacement)
        /\ \A i \in 1..Len(unit_out[1]) :
            /\ unit_out[1][i].op \in {"add_imm", "sub_imm"} => unit_out[1][i].imm < 4096
            /\ unit_out[1][i].op = "bytes" =>
                unit_out[1][i].word.top10 \in {ADD_X0_LSL12, SUB_X0_LSL12}

\* C16: the bit rearrangement of the check blob is self-inverse on every
\* 16-bit word, and the x86-64 and the AArch64 blob compute the same
\* permutation.
C16_RearrangeSelfInverse ==
    (Returned("x86_rearrange") \/ Returned("a64_rearrange")) =>
        /\ unit_out[1].twice = unit_in
        /\ unit_out[1].once = x86_rearrange(unit_in)
        /\ unit_out[1].once = a64_rearrange(unit_in)

\* 0x1234 becomes 0x482c, each byte with its bits in reverse order, and back
C16_Witness ==
    /\ Returned("x86_rearrange")
    /\ unit_in = 4660
    /\ unit_out[1].once = 18476
    /\ unit_out[1].twice = 4660

\* C17: on x86-64 the done address of the check blob lands on an
\* instruction boundary inside the 10 nops written after the jump to the
\* report blob, or on the first restore instruction, and never inside the
\* jump, for every jump of 1 to 10 bytes.
C17_DoneOnBoundary ==
    Returned("x86_done_address") =>
        /\ unit_out[1].done \in unit_out[1].tail.nops \cup {unit_out[1].tail.restore}
        /\ unit_out[1].done >= unit_out[1].jmp_len

\* a near jump of 5 bytes: done is the sixth of the nops
C17_Witness ==
    /\ Returned("x86_done_address")
    /\ unit_in = 5
    /\ unit_out[1].done = 10
    /\ unit_out[1].tail.nops = 5..14
    /\ unit_out[1].tail.restore = 15

\* ---------------------------------------------------------------------
\* The stalked-address map
\* ---------------------------------------------------------------------

MaxStalked == 3      \* stalked and real addresses are 1..MaxStalked

MaxAdds == 3         \* add_stalked_address is called at most MaxAdds times

\* an insert that keeps the mapping already there
add_stalked_address_keep_first(map, stalked, real) ==
    IF stalked \in DOMAIN map THEN map ELSE Store(map, stalked, real)

\* self.stalked_addresses.insert(stalked, real)
add_stalked_address(map, stalked, real) == Store(map, stalked, real)

\* self.stalked_addresses.get(&stalked).map_or(stalked, |addr| *addr)
real_address_for_stalked(map, stalked) ==
    IF stalked \in DOMAIN map THEN map[stalked] ELSE stalked

\* unit_in is the list of the calls <<stalked, real>> made so far
InitStalked ==
    /\ InitIdle
    /\ shadow = {}
    /\ shadow_ops = <<>>
    /\ unit_fn = "real_address_for_stalked"
    /\ unit_in = <<>>
    /\ unit_out = <<>>

StalkerAdds ==
    /\ Len(unit_in) < MaxAdds
    /\ \E stalked \in 1..MaxStalked, real \in 1..MaxStalked :
        /\ stalked_addresses' = add_stalked_address(stalked_addresses, stalked, real)
        /\ unit_in' = Append(unit_in, <<stalked, real>>)
    /\ unit_out' = <<>>
    /\ UNCHANGED <<blobvars, emitvars, regs, continue_on_error, check_for_leaks_enabled,
                   hooks_enabled, phase, pc, post_pos, post_trace, allocations,
                   input_poisoned, errors, fault, execs, last_call, shadow, shadow_ops,
                   unit_fn, threadvars, qemuvars>>

StalkedLookup ==
    /\ \E stalked \in 1..MaxStalked :
        unit_out' = <<[stalked |-> stalked,
                       real |-> real_address_for_stalked(stalked_addresses, stalked)]>>
    /\ UNCHANGED <<idlevars, shadow, shadow_ops, unit_fn, unit_in>>

NextStalked == StalkerAdds \/ StalkedLookup

SpecStalked == InitStalked /\ [][NextStalked]_vars

\* the real address of the last call made for stalked, stalked if there is none
MostRecentAdd(calls, stalked) ==
    LET made == {i \in 1..Len(calls) : calls[i][1] = stalked}
    IN  IF made = {} THEN stalked
        ELSE calls[CHOOSE i \in made : \A j \in made : j <= i][2]

\* C18: real_address_for_stalked(s) returns the real address of the most
\* recent add_stalked_address(s, r), and s itself when s was never added;
\* an add leaves the mapping of every other stalked address unchanged.
C18_StalkedMostRecent ==
    /\ \A stalked \in 1..MaxStalked :
        real_address_for_stalked(stalked_addresses, stalked) = MostRecentAdd(unit_in, stalked)
    /\ (unit_fn = "real_address_for_stalked" /\ unit_out # <<>>) =>
        unit_out[1].real = MostRecentAdd(unit_in, unit_out[1].stalked)

\* the same stalked address added twice, another once, and the first looked up
C18_Witness ==
    /\ unit_fn = "real_address_for_stalked"
    /\ Len(unit_in) = 3
    /\ unit_in[1][1] = unit_in[3][1]
    /\ unit_in[1][2] # unit_in[3][2]
    /\ unit_in[2][1] # unit_in[1][1]
    /\ unit_out # <<>>
    /\ unit_out[1].stalked = unit_in[1][1]
    /\ unit_out[1].real = unit_in[3][2]

\* ---------------------------------------------------------------------
\* Threads in the runtime: the stalker and the fault handlers
\* ---------------------------------------------------------------------

MaxTraps == 2        \* at most MaxTraps failed checks are handled

InitConcurrent ==
    /\ InitIdle
    /\ shadow = {}
    /\ shadow_ops = <<>>
    /\ unit_fn = "threads"
    /\ unit_in \in (1..MaxStalked) \X (1..MaxStalked)
    /\ unit_out = <<>>

concurrentstatic ==
    <<blobvars, emitvars, regs, continue_on_error, check_for_leaks_enabled, hooks_enabled,
      phase, pc, post_pos, post_trace, allocations, input_poisoned, fault, execs,
      last_call, shadow, shadow_ops, unit_fn, unit_in, qemuvars>>

InHandler(t) == threads[t] \in {"map_read", "want_collector", "appending"}

\* the stalker on thread t enters add_stalked_address: &mut self, no lock
AddStalkedBegin(t) ==
    /\ threads[t] = "idle"
    /\ threads' = [threads EXCEPT ![t] = "map_write"]
    /\ UNCHANGED <<concurrentstatic, stalked_addresses, errors, unit_out, collector_lock>>

\* the insert completes
AddStalkedEnd(t) ==
    /\ threads[t] = "map_write"
    /\ stalked_addresses' = add_stalked_address(stalked_addresses, unit_in[1], unit_in[2])
    /\ threads' = [threads EXCEPT ![t] = "idle"]
    /\ UNCHANGED <<concurrentstatic, errors, unit_out, collector_lock>>

\* a check fails on thread t: the report blob calls handle_trap through the
\* raw pointer to the runtime, which looks up the stalked address
HandleTrapBegin(t) ==
    /\ threads[t] = "idle"
    /\ Len(errors) + Cardinality({u \in Threads : InHandler(u)}) < MaxTraps
    /\ threads' = [threads EXCEPT ![t] = "map_read"]
    /\ UNCHANGED <<concurrentstatic, stalked_addresses, errors, unit_out, collector_lock>>

\* the lookup returns; a lookup that overlaps an insert reads anything
HandleTrapLookup(t) ==
    /\ threads[t] = "map_read"
    /\ \E real \in 1..MaxStalked :
        /\ \/ real = real_address_for_stalked(stalked_addresses, unit_in[1])
           \/ \E u \in Threads : threads[u] = "map_write"
        /\ unit_out' = <<[stalked |-> unit_in[1], real |-> real]>>
    /\ threads' = [threads EXCEPT ![t] = "want_collector"]
    /\ UNCHANGED <<concurrentstatic, stalked_addresses, errors, collector_lock>>

\* AsanErrors::get_mut(): the collector's lock is taken
CollectorLock(t) ==
    /\ threads[t] = "want_collector"
    /\ collector_lock = {}
    /\ collector_lock' = {t}
    /\ threads' = [threads EXCEPT ![t] = "appending"]
    /\ UNCHANGED <<concurrentstatic, stalked_addresses, errors, unit_out>>

\* report_error appends and the lock is released
CollectorAppend(t) ==
    /\ threads[t] = "appending"
    /\ errors' = Append(errors, [thread |-> t])
    /\ collector_lock' = collector_lock \ {t}
    /\ threads' = [threads EXCEPT ![t] = "idle"]
    /\ UNCHANGED <<concurrentstatic, stalked_addresses, unit_out>>

NextConcurrent ==
    \E t \in Threads :
        \/ AddStalkedBegin(t)
        \/ AddStalkedEnd(t)
        \/ HandleTrapBegin(t)
        \/ HandleTrapLookup(t)
        \/ CollectorLock(t)
        \/ CollectorAppend(t)

SpecConcurrent == InitConcurrent /\ [][NextConcurrent]_vars

\* C19: the stalked-address map and the error collector are accessed under
\* mutual exclusion: an add_stalked_address on one thread never overlaps a
\* fault handler's read of the map on another, and two fault handlers never
\* append to the error collector at the same time.
C19_MutualExclusion ==
    \A t, u \in Threads :
        t # u =>
            /\ ~(threads[t] = "map_write" /\ threads[u] = "map_read")
            /\ ~(threads[t] = "appending" /\ threads[u] = "appending")

\* ---------------------------------------------------------------------
\* init, statement by statement
\* ---------------------------------------------------------------------

\* the statements of init, in the order of the source
init_order ==
    <<"allocator_init", "asan_errors", "generate_instrumentation_blobs",
      "unpoison_all_existing_memory", "module_map", "suppressed_addresses",
      "register_thread">>

\* the blob fields generate_instrumentation_blobs sets, by width (0: report)
generate_instrumentation_blobs(a) ==
    IF a = "x86_64" THEN {0, 1, 2, 4, 8, 16}
    ELSE {0, 1, 2, 4, 8, 16, 3, 6, 12, 24, 32, 48, 64}

\* the blobs emit_shadow_check of the architecture embeds
EmbeddedBlobs(a) ==
    IF a = "x86_64" THEN {0, 1, 2, 4, 8, 16}
    ELSE {0, 1, 2, 3, 4, 6, 8, 12, 16, 24, 32, 48, 64}

\* the readable and writable ranges mapped when init runs
MappedRanges == SUBSET {[u |-> 8 * i, n |-> 8] : i \in 0..(((MaxAddr + 1) \div 8) - 1)}

\* unpoison_all_existing_memory: every range found is unpoisoned
unpoison_all_existing_memory(sh, ranges) ==
    sh \cup UNION {unpoison({}, r.u, r.n) : r \in ranges}

InitInit ==
    /\ InitIdle
    /\ shadow = {}
    /\ shadow_ops = <<>>
    /\ unit_fn = "init"
    /\ unit_in \in [arch : Archs, ranges : MappedRanges]
    /\ unit_out = <<>>

\* the statements of init among the calls made
InitDone == SelectSeq(unit_out, LAMBDA c : c # "register_hooks")

InitReturned == unit_fn = "init" /\ Len(InitDone) = Len(init_order)

\* the next statement of init
InitStep ==
    /\ unit_fn = "init"
    /\ Len(InitDone) < Len(init_order)
    /\ LET step == init_order[Len(InitDone) + 1]
       IN  /\ unit_out' = Append(unit_out, step)
           /\ shadow' = IF step = "unpoison_all_existing_memory"
                        THEN unpoison_all_existing_memory(shadow, unit_in.ranges)
                        ELSE shadow
    /\ UNCHANGED <<idlevars, shadow_ops, unit_fn, unit_in>>

\* AsanRuntime::register_hooks, an associated function that init does not
\* call: whoever owns the hook runtime calls it, before init or after it
RegisterHooks ==
    /\ unit_fn = "init"
    /\ Len(InitDone) \in {0, Len(init_order)}
    /\ \A i \in 1..Len(unit_out) : unit_out[i] # "register_hooks"
    /\ unit_out' = Append(unit_out, "register_hooks")
    /\ UNCHANGED <<idlevars, shadow, shadow_ops, unit_fn, unit_in>>

NextInit == InitStep \/ RegisterHooks

SpecInit == InitInit /\ [][NextInit]_vars

\* the place of a call among the calls made, 0 if it was not made
CallIndex(c) ==
    LET made == {i \in 1..Len(unit_out) : unit_out[i] = c}
    IN  IF made = {} THEN 0 ELSE CHOOSE i \in made : TRUE

\* C20: init performs, in this order, the allocator initialisation, the
\* generation of all instrumentation blobs, the unpoisoning of every mapped
\* read/write region, the installation of the hooks and the registration of
\* the main thread; when it returns the report blob and every check blob of
\* the architecture are generated and the hooks are installed.
C20_InitOrder ==
    InitReturned =>
        /\ 0 < CallIndex("allocator_init")
        /\ CallIndex("allocator_init") < CallIndex("generate_instrumentation_blobs")
        /\ CallIndex("generate_instrumentation_blobs") < CallIndex("unpoison_all_existing_memory")
        /\ CallIndex("unpoison_all_existing_memory") < CallIndex("register_hooks")
        /\ CallIndex("register_hooks") < CallIndex("register_thread")
        /\ EmbeddedBlobs(unit_in.arch) \subseteq generate_instrumentation_blobs(unit_in.arch)
        /\ \A r \in unit_in.ranges : check(shadow, r.u, r.n)

\* the enumerated regions that contain the address
Containing(ranges, address) ==
    {ranges[i] : i \in {j \in 1..Len(ranges) :
                            ranges[j].start <= address /\ address < ranges[j].end}}

\* C21: range_for_address returns the start and end of the enumerated region
\* that contains the address, start <= address < end, and (0, 0) when no
\* enumerated region contains it; on the boundary between two adjacent
\* regions it returns the region that starts at the address.
C21_RangeContainsAddress ==
    Returned("range_for_address") =>
        IF Containing(unit_in.ranges, unit_in.address) = {}
        THEN unit_out[1] = <<0, 0>>
        ELSE /\ unit_out[1][1] <= unit_in.address
             /\ unit_in.address < unit_out[1][2]
             /\ [start |-> unit_out[1][1], end |-> unit_out[1][2]]
                    \in Containing(unit_in.ranges, unit_in.address)

\* C22: NopExecutor::run_target returns the empty-input error exactly when
\* the input has no target bytes and Ok(ExitKind::Ok) for every other input,
\* and leaves the fuzzer, the state and the event manager unchanged.
C22_NopExecutor ==
    Returned("NopExecutor_run_target") =>
        /\ (unit_in.input = <<>>) <=> (unit_out[1].result = Err("Input Empty"))
        /\ (unit_in.input # <<>>) <=> (unit_out[1].result = Ok("Ok"))
        /\ unit_out[1].fuzzer = unit_in.fuzzer
        /\ unit_out[1].state = unit_in.state
        /\ unit_out[1].mgr = unit_in.mgr

\* the empty input is refused
C22_Witness ==
    /\ Returned("NopExecutor_run_target")
    /\ unit_in.input = <<>>
    /\ unit_in.state = 1
    /\ ~unit_out[1].result.ok
    /\ unit_out[1].state = 1

\* ---------------------------------------------------------------------
\* QemuExecutor and QemuForkExecutor
\* ---------------------------------------------------------------------

MaxRuns == 3         \* run_target is called at most MaxRuns times

ExitKinds == {"Ok", "Crash"}

\* Result<ExitKind, Error> of the inner executor
InnerResults == {Ok(k) : k \in ExitKinds} \cup {Err("inner")}

Event(call, ev, value) == [call |-> call, ev |-> ev, value |-> value]

\* a constructor without the assertion
QemuForkExecutor_new_unchecked(side_effects, inner) ==
    IF inner.ok
    THEN [status |-> "built", fork |-> TRUE, first_exec |-> TRUE, calls |-> 0,
          events |-> <<Event(0, "InProcessForkExecutor::new", inner)>>]
    ELSE [status |-> "failed", fork |-> TRUE, first_exec |-> FALSE, calls |-> 0,
          events |-> <<Event(0, "InProcessForkExecutor::new", inner)>>]

\* QemuForkExecutor::new: the assertion, the inner executor, first_exec: true
QemuForkExecutor_new(side_effects, inner) ==
    IF side_effects
    THEN [status |-> "panicked", fork |-> TRUE, first_exec |-> FALSE, calls |-> 0,
          events |-> <<Event(0, "assert", Err("panic"))>>]
    ELSE IF inner.ok
    THEN [status |-> "built", fork |-> TRUE, first_exec |-> TRUE, calls |-> 0,
          events |-> <<Event(0, "assert", Ok("passed")),
                       Event(0, "InProcessForkExecutor::new", inner)>>]
    ELSE [status |-> "failed", fork |-> TRUE, first_exec |-> FALSE, calls |-> 0,
          events |-> <<Event(0, "assert", Ok("passed")),
                       Event(0, "InProcessForkExecutor::new", inner)>>]

\* QemuExecutor::new: the inner executor, first_exec: true
QemuExecutor_new(inner) ==
    IF inner.ok
    THEN [status |-> "built", fork |-> FALSE, first_exec |-> TRUE, calls |-> 0,
          events |-> <<Event(0, "InProcessExecutor::with_timeout", inner)>>]
    ELSE [status |-> "failed", fork |-> FALSE, first_exec |-> FALSE, calls |-> 0,
          events |-> <<Event(0, "InProcessExecutor::with_timeout", inner)>>]

\* first_exec left set
first_exec_kept(first_exec) == first_exec

\* self.state.first_exec = false
first_exec_cleared(first_exec) == FALSE

\* the end of run_target with post_exec_all called whatever the inner
\* executor returned
run_target_tail_always_post(call, inner, rewritten) ==
    <<Event(call, "post_exec_all", Ok(rewritten)), Event(call, "return", Ok(rewritten))>>

\* the end of run_target: `?` on the inner result, post_exec_all, Ok(exit_kind)
run_target_tail(call, inner, rewritten) ==
    IF inner.ok
    THEN <<Event(call, "post_exec_all", Ok(rewritten)), Event(call, "return", Ok(rewritten))>>
    ELSE <<Event(call, "return", inner)>>

\* run_target of QemuExecutor and of QemuForkExecutor: inner is what the
\* inner executor returns, rewritten the exit kind post_exec_all leaves
qemu_run_target(q, inner, rewritten) ==
    LET call == q.calls + 1
    IN  [status |-> q.status, fork |-> q.fork,
         first_exec |-> IF q.first_exec THEN first_exec_cleared(q.first_exec) ELSE q.first_exec,
         calls |-> call,
         events |-> (IF q.first_exec THEN <<Event(call, "first_exec_all", Ok(""))>> ELSE <<>>)
                    \o <<Event(call, "pre_exec_all", Ok("")), Event(call, "inner", inner)>>
                    \o run_target_tail(call, inner, rewritten)]

Executor(r) == [status |-> r.status, fork |-> r.fork, first_exec |-> r.first_exec,
                calls |-> r.calls]

\* unit_in: QT::HOOKS_DO_SIDE_EFFECTS of the helper tuple
InitQemu ==
    /\ InitIdle
    /\ shadow = {}
    /\ shadow_ops = <<>>
    /\ unit_fn = "qemu"
    /\ unit_in \in [side_effects : BOOLEAN]
    /\ unit_out = <<>>

qemustatic ==
    <<blobvars, emitvars, regs, continue_on_error, lifevars, threadvars, shadow, shadow_ops,
      unit_fn, unit_in, unit_out, forkexec>>

QemuExecutorNew ==
    /\ qemu.status = "none"
    /\ \E inner \in {Ok("executor"), Err("inner")} :
        LET r == QemuExecutor_new(inner)
        IN  /\ qemu' = Executor(r)
            /\ qemu_trace' = qemu_trace \o r.events
    /\ UNCHANGED qemustatic

QemuForkExecutorNew ==
    /\ qemu.status = "none"
    /\ \E inner \in {Ok("executor"), Err("inner")} :
        LET r == QemuForkExecutor_new(unit_in.side_effects, inner)
        IN  /\ qemu' = Executor(r)
            /\ qemu_trace' = qemu_trace \o r.events
    /\ UNCHANGED qemustatic

QemuExecutorRunTarget ==
    /\ qemu.status = "built"
    /\ qemu.fork = FALSE
    /\ qemu.calls < MaxRuns
    /\ \E inner \in InnerResults, rewritten \in ExitKinds :
        LET r == qemu_run_target(qemu, inner, rewritten)
        IN  /\ qemu' = Executor(r)
            /\ qemu_trace' = qemu_trace \o r.events
    /\ UNCHANGED qemustatic

QemuForkExecutorRunTarget ==
    /\ qemu.status = "built"
    /\ qemu.fork = TRUE
    /\ qemu.calls < MaxRuns
    /\ \E inner \in InnerResults, rewritten \in ExitKinds :
        LET r == qemu_run_target(qemu, inner, rewritten)
        IN  /\ qemu' = Executor(r)
            /\ qemu_trace' = qemu_trace \o r.events
    /\ UNCHANGED qemustatic

NextQemu ==
    \/ QemuExecutorNew
    \/ QemuForkExecutorNew
    \/ QemuExecutorRunTarget
    \/ QemuForkExecutorRunTarget

SpecQemu == InitQemu /\ [][NextQemu]_vars

\* the places of an event in the trace
TraceIndexes(call, ev) ==
    {i \in 1..Len(qemu_trace) : qemu_trace[i].call = call /\ qemu_trace[i].ev = ev}

\* C23: QemuForkExecutor::new never yields an executor whose helper tuple
\* declares side-effecting hooks: with HOOKS_DO_SIDE_EFFECTS it panics on
\* its assertion before the inner fork executor is built; without, it
\* proceeds to build the inner executor and the executor it returns has
\* first_exec = true.
C23_ForkNewAsserts ==
    (unit_fn = "qemu" /\ qemu.fork /\ qemu.status # "none") =>
        /\ unit_in.side_effects =>
            /\ qemu.status = "panicked"
            /\ TraceIndexes(0, "InProcessForkExecutor::new") = {}
        /\ ~unit_in.side_effects =>
            /\ TraceIndexes(0, "InProcessForkExecutor::new") # {}
            /\ \A i \in TraceIndexes(0, "InProcessForkExecutor::new") :
                qemu_trace[i].value.ok => qemu.status = "built"
        /\ (qemu.status = "built" /\ qemu.calls = 0) => qemu.first_exec

\* the helper tuple declares side effects and the constructor panicked
C23_Witness ==
    /\ unit_fn = "qemu"
    /\ unit_in.side_effects
    /\ qemu.fork
    /\ qemu.status = "panicked"
    /\ qemu_trace = <<Event(0, "assert", Err("panic"))>>

\* C24: across any sequence of run_target calls on one executor,
\* first_exec_all is invoked exactly once, during the first call and before
\* that call's pre_exec_all, and never again, also when a run returns an
\* error.
C24_FirstExecOnce ==
    (unit_fn = "qemu" /\ qemu.status = "built" /\ qemu.calls >= 1) =>
        /\ Cardinality(TraceIndexes(1, "first_exec_all")) = 1
        /\ \A i \in TraceIndexes(1, "first_exec_all"), j \in TraceIndexes(1, "pre_exec_all") :
            i < j
        /\ \A c \in 2..qemu.calls : TraceIndexes(c, "first_exec_all") = {}
        /\ ~qemu.first_exec

\* three runs, the first of which failed in the inner executor
C24_Witness ==
    /\ unit_fn = "qemu"
    /\ qemu.status = "built"
    /\ qemu.calls = 3
    /\ \E i \in TraceIndexes(1, "return") : ~qemu_trace[i].value.ok
    /\ TraceIndexes(1, "first_exec_all") # {}
    /\ TraceIndexes(3, "pre_exec_all") # {}

\* C25: in every run_target call pre_exec_all runs before the inner
\* executor and post_exec_all after it; post_exec_all is invoked if and only
\* if the inner run returned Ok, and the ExitKind returned is the one left
\* after post_exec_all; when the inner run returns Err the error is
\* propagated and post_exec_all is skipped.
C25_PrePostOrder ==
    (unit_fn = "qemu" /\ qemu.status = "built") =>
        \A c \in 1..qemu.calls :
            /\ Cardinality(TraceIndexes(c, "pre_exec_all")) = 1
            /\ Cardinality(TraceIndexes(c, "inner")) = 1
            /\ Cardinality(TraceIndexes(c, "return")) = 1
            /\ \A p \in TraceIndexes(c, "pre_exec_all"), i \in TraceIndexes(c, "inner"),
                  r \in TraceIndexes(c, "return") :
                /\ p < i
                /\ i < r
                /\ (TraceIndexes(c, "post_exec_all") # {}) <=> qemu_trace[i].value.ok
                /\ \A q \in TraceIndexes(c, "post_exec_all") :
                    /\ i < q
                    /\ q < r
                    /\ qemu_trace[r].value = qemu_trace[q].value
                /\ ~qemu_trace[i].value.ok => qemu_trace[r].value = qemu_trace[i].value

\* the inner run returned Ok and post_exec_all rewrote the exit kind
C25_Witness ==
    /\ unit_fn = "qemu"
    /\ qemu.status = "built"
    /\ qemu.calls = 1
    /\ \E i \in TraceIndexes(1, "inner"), r \in TraceIndexes(1, "return") :
        /\ qemu_trace[i].value = Ok("Ok")
        /\ qemu_trace[r].value = Ok("Crash")

\* ---------------------------------------------------------------------
\* GenericInProcessForkExecutorWithState::run_target
\* ---------------------------------------------------------------------

\* an event of a process: unit_out is the list of the events so far
ProcEvent(proc, ev, value) ==
    [call |-> forkexec.calls, proc |-> proc, ev |-> ev, value |-> value]

\* executions left as it was
executions_unchanged(n) == n

\* *state.executions_mut() += 1
executions_incremented(n) == n + 1

InitFork ==
    /\ InitIdle
    /\ shadow = {}
    /\ shadow_ops = <<>>
    /\ unit_fn = "fork_run_target"
    /\ unit_in \in [input : BytesInputs]
    /\ unit_out = <<>>

forkstatic ==
    <<blobvars, emitvars, regs, continue_on_error, lifevars, threadvars, shadow, shadow_ops,
      unit_fn, unit_in, qemu, qemu_trace>>

\* run_target is entered: the counter
ForkRunTarget ==
    /\ forkexec.parent = "idle"
    /\ forkexec.calls < MaxRuns
    /\ forkexec' = [executions |-> executions_incremented(forkexec.executions),
                    calls |-> forkexec.calls + 1, parent |-> "counted", child |-> "none"]
    /\ unit_out' = Append(unit_out,
                          [call |-> forkexec.calls + 1, proc |-> "parent", ev |-> "executions",
                           value |-> Ok(executions_incremented(forkexec.executions))])
    /\ UNCHANGED forkstatic

\* self.inner.shmem_provider.pre_fork()?
ForkPreFork ==
    /\ forkexec.parent = "counted"
    /\ \E r \in {Ok(""), Err("pre_fork")} :
        /\ forkexec' = [forkexec EXCEPT !.parent = IF r.ok THEN "pre_forked" ELSE "idle"]
        /\ unit_out' = unit_out \o <<ProcEvent("parent", "pre_fork", r)>>
                                \o (IF r.ok THEN <<>> ELSE <<ProcEvent("parent", "return", r)>>)
    /\ UNCHANGED forkstatic

\* fork(): a child and a parent, or Err(e) => Err(Error::from(e))
ForkFork ==
    /\ forkexec.parent = "pre_forked"
    /\ \E r \in {Ok(""), Err("fork")} :
        /\ forkexec' = IF r.ok
                       THEN [forkexec EXCEPT !.parent = "parent", !.child = "start"]
                       ELSE [forkexec EXCEPT !.parent = "idle"]
        /\ unit_out' = unit_out \o <<ProcEvent("parent", "fork", r)>>
                                \o (IF r.ok THEN <<>> ELSE <<ProcEvent("parent", "return", r)>>)
    /\ UNCHANGED forkstatic

\* child: self.inner.pre_run_target_child(fuzzer, state, mgr, input)?
ForkChildPreRun ==
    /\ forkexec.child = "start"
    /\ \E r \in {Ok(""), Err("pre_run_target_child")} :
        /\ forkexec' = [forkexec EXCEPT !.child = IF r.ok THEN "ready" ELSE "returned"]
        /\ unit_out' = unit_out \o <<ProcEvent("child", "pre_run_target_child", r)>>
                                \o (IF r.ok THEN <<>> ELSE <<ProcEvent("child", "return", r)>>)
    /\ UNCHANGED forkstatic

\* child: (self.harness_fn)(input, execution_state)
ForkChildHarness ==
    /\ forkexec.child = "ready"
    /\ forkexec' = [forkexec EXCEPT !.child = "ran"]
    /\ unit_out' = Append(unit_out, ProcEvent("child", "harness", Ok(unit_in.input)))
    /\ UNCHANGED forkstatic

\* child: self.inner.post_run_target_child(fuzzer, state, mgr, input)
ForkChildPostRun ==
    /\ forkexec.child = "ran"
    /\ forkexec' = [forkexec EXCEPT !.child = "done"]
    /\ unit_out' = Append(unit_out, ProcEvent("child", "post_run_target_child", Ok("")))
    /\ UNCHANGED forkstatic

\* parent: self.inner.parent(child), the child having ended or timed out
ForkParent ==
    /\ forkexec.parent = "parent"
    /\ \E r \in {Ok(k) : k \in ExitKinds \cup {"Timeout"}} \cup {Err("waitpid")} :
        /\ (r # Ok("Timeout")) => forkexec.child \in {"done", "returned"}
        /\ forkexec' = [forkexec EXCEPT !.parent = "idle",
                                        !.child = IF @ \in {"done", "returned"} THEN @
                                                  ELSE "killed"]
        /\ unit_out' = unit_out \o <<ProcEvent("parent", "wait", r),
                                     ProcEvent("parent", "return", r)>>
    /\ UNCHANGED forkstatic

NextFork ==
    \/ ForkRunTarget
    \/ ForkPreFork
    \/ ForkFork
    \/ ForkChildPreRun
    \/ ForkChildHarness
    \/ ForkChildPostRun
    \/ ForkParent

SpecFork == InitFork /\ [][NextFork]_vars

\* the places of an event of a process in a call
ForkIndexes(call, proc, ev) ==
    {i \in 1..Len(unit_out) :
        unit_out[i].call = call /\ unit_out[i].proc = proc /\ unit_out[i].ev = ev}

\* C26: on every call run_target increments the executions counter by
\* exactly 1 first, also when pre_fork or fork then fails; pre_fork comes
\* before fork; the harness runs only in the child, between
\* pre_run_target_child and post_run_target_child; the parent never runs the
\* harness and returns the result of waiting on the child; a fork failure is
\* returned as Err without running the harness.
C26_ForkProtocol ==
    unit_fn = "fork_run_target" =>
        /\ forkexec.executions = forkexec.calls
        /\ \A c \in 1..forkexec.calls :
            /\ Cardinality(ForkIndexes(c, "parent", "executions")) = 1
            /\ \A x \in ForkIndexes(c, "parent", "executions") :
                /\ unit_out[x].value = Ok(c)
                /\ \A i \in 1..Len(unit_out) : unit_out[i].call = c => x <= i
            /\ \A f \in ForkIndexes(c, "parent", "fork") :
                /\ \E p \in ForkIndexes(c, "parent", "pre_fork") : p < f /\ unit_out[p].value.ok
                /\ ~unit_out[f].value.ok =>
                    /\ ForkIndexes(c, "child", "harness") = {}
                    /\ \E r \in ForkIndexes(c, "parent", "return") :
                        unit_out[r].value = unit_out[f].value
            /\ ForkIndexes(c, "parent", "harness") = {}
            /\ \A h \in ForkIndexes(c, "child", "harness") :
                /\ \E p \in ForkIndexes(c, "child", "pre_run_target_child") :
                    p < h /\ unit_out[p].value.ok
                /\ \A q \in ForkIndexes(c, "child", "post_run_target_child") : h < q
                /\ \E f \in ForkIndexes(c, "parent", "fork") : f < h /\ unit_out[f].value.ok
            /\ \A q \in ForkIndexes(c, "child", "post_run_target_child") :
                \E h \in ForkIndexes(c, "child", "harness") : h < q
            /\ \A w \in ForkIndexes(c, "parent", "wait") :
                \E r \in ForkIndexes(c, "parent", "return") :
                    w < r /\ unit_out[r].value = unit_out[w].value

\* a call whose fork failed, then a call whose child ran the harness
C26_Witness ==
    /\ unit_fn = "fork_run_target"
    /\ forkexec.calls = 2
    /\ forkexec.executions = 2
    /\ forkexec.parent = "idle"
    /\ \E f \in ForkIndexes(1, "parent", "fork") : ~unit_out[f].value.ok
    /\ ForkIndexes(2, "child", "harness") # {}
    /\ ForkIndexes(2, "child", "post_run_target_child") # {}
    /\ \E r \in ForkIndexes(2, "parent", "return") : unit_out[r].value = Ok("Ok")

\* C27: on AArch64 the fault address handle_trap classifies and records
\* equals the effective address the failing check blob checked, base +
\* (shifted index) + displacement, for register-offset, pre-index and
\* post-index operands, with an index register and with a base of SP.
C27_FaultAddressIsChecked ==
    Returned("a64_fault_address") =>
        /\ unit_out[1].trap.fault_address = unit_out[1].checked
        /\ unit_out[1].trap.error.fault.fault_address = unit_out[1].checked

\* the 64-bit registers an x86-64 memory operand can have as its base
X86Base64 ==
    {"rax", "rcx", "rdx", "rbx", "rsp", "rbp", "rsi", "rdi",
     "r8", "r9", "r10", "r11", "r12", "r13", "r14", "r15", "rip"}

\* C28: on x86-64 the base register value handle_trap passes to
\* find_metadata is the full saved value of the base register when the base
\* is a 64-bit register, and its low half only when the base is a 32-bit
\* register; no 64-bit base value is truncated.
C28_BaseValueNotTruncated ==
    (arch = "x86_64" /\ fault.active /\ fault.handled /\ fault.result.consulted) =>
        LET base == register_idx(fault.insn.base)
        IN  fault.result.base_value =
                {IF fault.insn.base \in X86Base64 THEN regs[base[1]]
                 ELSE LowHalf(regs[base[1]])}

\* C29: emit_shadow_check emits a branch to the report blob only directly
\* after a check blob that guards it; for an access width without a check
\* blob no branch to the report blob is emitted, on x86-64 and on AArch64.
C29_BranchOnlyWithCheck ==
    Returned("emit_shadow_check_tail") =>
        \A i \in 1..Len(unit_out[1]) :
            unit_out[1][i] = "branch_report" => (i > 1 /\ unit_out[1][i - 1] = "check_blob")

\* ---------------------------------------------------------------------
\* Threads in the report blob: one self.regs for all of them
\* ---------------------------------------------------------------------

\* the instrumented access of every thread: mov [r8], eax
ThreadOperand == [width |-> 4, base |-> "r8", index |-> "none", scale |-> 1, disp |-> 0]

\* thread t when its check has failed and it jumps to the report blob
ThreadCpu(t) ==
    x86_blob_effect(emit_materialize(emit_spill(GuestCpu(t)), ThreadOperand, TrueRip(t)),
                    x86_bit_arg(ThreadOperand.width), FALSE)

\* slots of self.regs the report blob stores from live registers, and those
\* it stores afterwards from the values spilled on the stack
LiveSlots == {16, 1, 4, 5} \cup (8..15)

SpilledSlots == {0, 2, 3, 6, 17, 18, 7}

InitReport ==
    /\ arch = "x86_64"
    /\ shadow_bit = 1
    /\ window = 0
    /\ InitBlobVars
    /\ InitEmitVars
    /\ InitRegs
    /\ continue_on_error \in BOOLEAN
    /\ check_for_leaks_enabled = FALSE
    /\ InitRuntimeCore
    /\ InitThreads
    /\ shadow = {}
    /\ shadow_ops = <<>>
    /\ unit_fn = "report"
    /\ unit_in = <<>>
    /\ unit_out = <<>>

reportstatic ==
    <<blobvars, emitvars, continue_on_error, check_for_leaks_enabled, phase, pc, post_pos,
      post_trace, allocations, input_poisoned, fault, execs, stalked_addresses, last_call,
      shadow, shadow_ops, unit_fn, unit_in, collector_lock, qemuvars>>

\* the check of thread t fails: jmp to the report blob
ThreadCheckFails(t) ==
    /\ threads[t] = "idle"
    /\ Len(errors) + Cardinality({u \in Threads : threads[u] # "idle"}) < MaxTraps
    /\ threads' = [threads EXCEPT ![t] = "report"]
    /\ UNCHANGED <<reportstatic, regs, hooks_enabled, errors, unit_out>>

\* mov rdi, [>self_regs_addr]; mov [rdi + 0x80], rsi ... mov [rdi + 0x78], r15
ThreadSaveLive(t) ==
    /\ threads[t] = "report"
    /\ regs' = [i \in DOMAIN regs |->
                    IF i \in LiveSlots THEN report_save(ThreadCpu(t))[i] ELSE regs[i]]
    /\ threads' = [threads EXCEPT ![t] = "live_saved"]
    /\ UNCHANGED <<reportstatic, hooks_enabled, errors, unit_out>>

\* mov rax, [rsp + 0x10]; mov [rdi + 0x0], rax ... mov [rsi + 0x38], rdi
ThreadSaveSpilled(t) ==
    /\ threads[t] = "live_saved"
    /\ regs' = [i \in DOMAIN regs |->
                    IF i \in SpilledSlots THEN report_save(ThreadCpu(t))[i] ELSE regs[i]]
    /\ threads' = [threads EXCEPT ![t] = "saved"]
    /\ UNCHANGED <<reportstatic, hooks_enabled, errors, unit_out>>

\* call rsi: handle_trap on thread t reads self.regs and reports; without
\* continue_on_error the process ends
ThreadHandleTrap(t) ==
    /\ threads[t] = "saved"
    /\ LET res == handle_trap_x86(regs, x86_decoded(ThreadOperand, TRUE), allocations)
       IN  /\ errors' = report_error(errors, res.error)
           /\ unit_out' = Append(unit_out, [thread |-> t, regs |-> regs,
                                            fault_address |-> res.error.fault.fault_address,
                                            pc |-> res.error.pc])
    /\ hooks_enabled' = handle_trap_entry_hooks(arch, hooks_enabled)
    /\ threads' = IF continue_on_error THEN [threads EXCEPT ![t] = "handled"]
                  ELSE [u \in Threads |-> "aborted"]
    /\ UNCHANGED <<reportstatic, regs>>

\* the report blob restores rbx..r15 from self.regs and jumps to done
ThreadResume(t) ==
    /\ threads[t] = "handled"
    /\ threads' = [threads EXCEPT ![t] = "idle"]
    /\ UNCHANGED <<reportstatic, regs, hooks_enabled, errors, unit_out>>

NextReport ==
    \E t \in Threads :
        \/ ThreadCheckFails(t)
        \/ ThreadSaveLive(t)
        \/ ThreadSaveSpilled(t)
        \/ ThreadHandleTrap(t)
        \/ ThreadResume(t)

SpecReport == InitReport /\ [][NextReport]_vars

\* C30: when two threads fail shadow checks concurrently, each recorded
\* error carries the register snapshot, fault address and pc of its own
\* faulting thread; no error record mixes values from two threads.
C30_OwnSnapshot ==
    unit_fn = "report" =>
        \A i \in 1..Len(unit_out) :
            LET own == report_save(ThreadCpu(unit_out[i].thread))
            IN  /\ unit_out[i].regs = own
                /\ unit_out[i].fault_address = own[17]
                /\ unit_out[i].pc = own[18]

====
